---- MODULE Spec2Model ----
(***************************************************************************)
(* Tournament progression engine of FC26-Tournament: the state held by     *)
(* TournamentProvider (src/src/context/TournamentContext.tsx) and the      *)
(* state updaters it passes to setState, with computeStandings             *)
(* (src/src/lib/standings.ts) and determineElimination (lib/elimination).  *)
(*                                                                         *)
(* Encoding of the TypeScript values:                                      *)
(*   Player            its id, a positive integer (names are never read    *)
(*                     by the engine)                                      *)
(*   Match.id          a record [kind, n, a, b]: 'ko-final' is             *)
(*                     [kind |-> "ko-final"], `ko-playin-${n}` is          *)
(*                     [kind |-> "ko-playin-", n |-> n], ...               *)
(*   scoreA/scoreB     an integer, or NoScore for null                     *)
(*   stage             "play_in", "semi", "final", "third_place", or       *)
(*                     NoStage for undefined                               *)
(*   knockoutSeeds     a sequence of player ids, or NoSeeds for null       *)
(*   knockoutPlayerCount  an integer >= 2, or NoCount for null             *)
(***************************************************************************)
EXTENDS Integers, Sequences, FiniteSets, TLC

\* ------------------------------------------------------------------ bounds
MaxPlayers == 6
MaxPlayIn == 4
LongRunPlayers == 7
SeedPlayers == 6
GroupPlayers == 3
GoldenPlayers == 3
MaxGroupMatches == 6
ApiPlayers == 3
ApiMatches == 3
AsyncPlayers == 4
MaxSubmissions == 3
OddPlayers == 5
MaxPlayed == 6
MaxCalls == 2
FramePlayers == 3
MaxFrameScored == 4
MaxFrameMatches == 6
MaxLongPlayIn == 6

\* ------------------------------------------------------- encoding of null
NoScore == -999
NoStage == "none"
NoSeeds == <<>>
NoCount == 0
NoPlayer == 0

POINTS_WIN == 3
POINTS_DRAW == 1
POINTS_LOSS == 0

\* Score pairs submitted through setMatchScore: a win for A, a win for B, a draw.
ScorePairs == {<<1, 0>>, <<0, 1>>, <<1, 1>>}

\* Score pairs submitted for a golden-goal match: the same and two more that
\* are no golden goal, no goal at all and a sum of 1 with a negative score.
GoldenScorePairs == ScorePairs \cup {<<0, 0>>, <<2, -1>>}

ScoresFor(m) == IF m.isGoldenGoal THEN GoldenScorePairs ELSE ScorePairs

VARIABLES players, matches, knockoutPlayerCount, knockoutSeeds, roundEliminations,
          inFlight, submitted, updaters

vars == <<players, matches, knockoutPlayerCount, knockoutSeeds, roundEliminations,
          inFlight, submitted, updaters>>

\* The TournamentState aggregate.
state ==
  [players |-> players, matches |-> matches,
   knockoutPlayerCount |-> knockoutPlayerCount,
   knockoutSeeds |-> knockoutSeeds,
   roundEliminations |-> roundEliminations]

\* ---------------------------------------------------------------- helpers
Range(f) == {f[i] : i \in DOMAIN f}

\* Array.prototype.slice(from) with a 0-based start index
SliceFrom(s, from) == IF from >= Len(s) THEN <<>> ELSE SubSeq(s, from + 1, Len(s))

\* Array.prototype.slice(0, n)
SliceTo(s, n) == IF n >= Len(s) THEN s ELSE SubSeq(s, 1, n)

\* s[i] of a JavaScript array (0-based); undefined is NoPlayer
At(s, i) == IF i + 1 \in DOMAIN s THEN s[i + 1] ELSE NoPlayer

Swap(s, i, j) == [s EXCEPT ![i] = s[j], ![j] = s[i]]

\* Match ids
KoId(kind) == [kind |-> kind, n |-> 0, a |-> 0, b |-> 0]
PlayInId(n) == [kind |-> "ko-playin-", n |-> n, a |-> 0, b |-> 0]
GroupId(i, a, b) == [kind |-> "m-", n |-> i, a |-> a, b |-> b]
GoldenId(a, b) == [kind |-> "golden-", n |-> 0, a |-> a, b |-> b]

\* A pending knockout match as the object literals of the source build it.
KoMatch(id, a, b, roundIndex, stage) ==
  [id |-> id, playerAId |-> a, playerBId |-> b, roundIndex |-> roundIndex,
   scoreA |-> NoScore, scoreB |-> NoScore, status |-> "pending",
   isGoldenGoal |-> FALSE, stage |-> stage]

HasScores(m) == m.scoreA # NoScore /\ m.scoreB # NoScore

\* m.scoreA > m.scoreB ? m.playerAId : m.playerBId
WinnerOf(m) == IF m.scoreA > m.scoreB THEN m.playerAId ELSE m.playerBId

\* m.scoreA > m.scoreB ? m.playerBId : m.playerAId
LoserOf(m) == IF m.scoreA > m.scoreB THEN m.playerBId ELSE m.playerAId

OfStage(ms, stage) == SelectSeq(ms, LAMBDA m : m.stage = stage)

AllScored(ms) == \A i \in DOMAIN ms : HasScores(ms[i])

\* --------------------------------------------------------- computeStandings
ZeroStat == [wins |-> 0, draws |-> 0, losses |-> 0, goalsFor |-> 0, goalsAgainst |-> 0]

\* One iteration of the loop over matches; a and b are updated one after the other.
TallyMatch(bp, m) ==
  IF m.stage # NoStage THEN bp
  ELSE IF ~HasScores(m) THEN bp
  ELSE IF m.playerAId \notin DOMAIN bp \/ m.playerBId \notin DOMAIN bp THEN bp
  ELSE
    LET A == m.playerAId
        B == m.playerBId
        g1 == [bp EXCEPT ![A].goalsFor = @ + m.scoreA, ![A].goalsAgainst = @ + m.scoreB]
        g2 == [g1 EXCEPT ![B].goalsFor = @ + m.scoreB, ![B].goalsAgainst = @ + m.scoreA]
        AWins == [[g2 EXCEPT ![A].wins = @ + 1] EXCEPT ![B].losses = @ + 1]
        BWins == [[g2 EXCEPT ![B].wins = @ + 1] EXCEPT ![A].losses = @ + 1]
        Draw == [[g2 EXCEPT ![A].draws = @ + 1] EXCEPT ![B].draws = @ + 1]
    IN IF m.isGoldenGoal
       THEN (IF m.scoreA > m.scoreB THEN AWins ELSE BWins)
       ELSE (IF m.scoreA > m.scoreB THEN AWins
             ELSE IF m.scoreA < m.scoreB THEN BWins
             ELSE Draw)

RECURSIVE TallyAll(_, _)
TallyAll(bp, ms) ==
  IF ms = <<>> THEN bp ELSE TallyAll(TallyMatch(bp, Head(ms)), Tail(ms))

\* Variant of StandingsRowOf: draws are left out of played.
StandingsRowOf_PlayedWithoutDraws(p, s) ==
  [playerId |-> p, rank |-> 0,
   played |-> s.wins + s.losses,
   wins |-> s.wins, draws |-> s.draws, losses |-> s.losses,
   goalsFor |-> s.goalsFor, goalsAgainst |-> s.goalsAgainst,
   goalDifference |-> s.goalsFor - s.goalsAgainst,
   points |-> s.wins * POINTS_WIN + s.draws * POINTS_DRAW + s.losses * POINTS_LOSS,
   isTied |-> FALSE]

StandingsRowOf(p, s) ==
  [playerId |-> p, rank |-> 0,
   played |-> s.wins + s.draws + s.losses,
   wins |-> s.wins, draws |-> s.draws, losses |-> s.losses,
   goalsFor |-> s.goalsFor, goalsAgainst |-> s.goalsAgainst,
   goalDifference |-> s.goalsFor - s.goalsAgainst,
   points |-> s.wins * POINTS_WIN + s.draws * POINTS_DRAW + s.losses * POINTS_LOSS,
   isTied |-> FALSE]

\* Variant of the comparator: the points alone decide.
StandingsCompare_PointsOnly(a, b) == b.points - a.points

\* The comparator handed to rows.sort: negative when a sorts before b.
StandingsCompare(a, b) ==
  IF b.points # a.points THEN b.points - a.points
  ELSE IF b.goalDifference # a.goalDifference THEN b.goalDifference - a.goalDifference
  ELSE b.goalsFor - a.goalsFor

\* Array.prototype.sort is stable: r goes behind every row that does not sort after it.
RECURSIVE InsertRow(_, _)
InsertRow(sorted, r) ==
  IF sorted = <<>> THEN <<r>>
  ELSE IF StandingsCompare(Head(sorted), r) <= 0
       THEN <<Head(sorted)>> \o InsertRow(Tail(sorted), r)
       ELSE <<r>> \o sorted

RECURSIVE SortRows(_)
SortRows(rows) ==
  IF rows = <<>> THEN <<>>
  ELSE InsertRow(SortRows(SubSeq(rows, 1, Len(rows) - 1)), rows[Len(rows)])

SameTriple(a, b) ==
  /\ a.points = b.points
  /\ a.goalDifference = b.goalDifference
  /\ a.goalsFor = b.goalsFor

\* Variant of the rank loop: every row gets its own position as rank.
RankAt_Position(rows, i) == i

\* The rank loop: a row takes the running rank, which moves to i + 2 (0-based i)
\* when the following row differs.
RECURSIVE RankAt(_, _)
RankAt(rows, i) ==
  IF i = 1 THEN 1
  ELSE IF SameTriple(rows[i - 1], rows[i]) THEN RankAt(rows, i - 1)
  ELSE i

AssignRanks(rows) ==
  [i \in DOMAIN rows |->
     [rows[i] EXCEPT
        !.rank = RankAt(rows, i),
        !.isTied = \/ (i + 1 \in DOMAIN rows /\ SameTriple(rows[i], rows[i + 1]))
                   \/ (i > 1 /\ SameTriple(rows[i - 1], rows[i]))]]

computeStandings(ps, ms) ==
  LET byPlayer == TallyAll([p \in Range(ps) |-> ZeroStat], ms)
      rows == [i \in DOMAIN ps |-> StandingsRowOf(ps[i], byPlayer[ps[i]])]
  IN AssignRanks(SortRows(rows))

\* ------------------------------------------------------- startKnockoutStage
\* The draws of one Fisher-Yates loop over n elements: for i = n-1 down to 1,
\* j = Math.floor(Math.random() * (i + 1)) lies in 0..i.
ShuffleDraws(n) == {js \in [1..(n - 1) -> 0..(n - 1)] : \A i \in 1..(n - 1) : js[i] <= i}

\* for (let i = list.length - 1; i > 0; i--) swap list[i], list[js[i]]  (0-based i)
RECURSIVE FisherYates(_, _, _)
FisherYates(list, js, i) ==
  IF i <= 0 THEN list
  ELSE FisherYates(Swap(list, i + 1, js[i] + 1), js, i - 1)

Shuffled(list, js) == FisherYates(list, js, Len(list) - 1)

\* for (let i = 0; i < list.length - 1; i += 2) push `ko-playin-${first + pushed}`
\* pairing list[i] with list[i + 1]
RECURSIVE PlayInPairs(_, _)
PlayInPairs(list, first) ==
  IF Len(list) < 2 THEN <<>>
  ELSE <<KoMatch(PlayInId(first), list[1], list[2], -10, "play_in")>>
       \o PlayInPairs(SubSeq(list, 3, Len(list)), first + 1)

\* Variant of SeedsFor: for 5 and more the shuffled bottom players come first.
SeedsFor_BottomFirst(k, qualified, js, coin) ==
  IF k = 2 THEN Shuffled(qualified, js)
  ELSE IF k = 3 THEN
    (IF coin THEN <<qualified[1], qualified[3], qualified[2]>>
     ELSE <<qualified[1], qualified[2], qualified[3]>>)
  ELSE IF k = 4 THEN
    LET indices == Shuffled(<<0, 1, 2, 3>>, js)
    IN [i \in 1..4 |-> qualified[indices[i] + 1]]
  ELSE Shuffled(SliceFrom(qualified, 3), js) \o SliceTo(qualified, 3)

\* Variant of SeedsFor: the swap for count 3 copies instead of exchanging.
SeedsFor_SwapCopies(k, qualified, js, coin) ==
  IF k = 2 THEN Shuffled(qualified, js)
  ELSE IF k = 3 THEN
    (IF coin THEN <<qualified[1], qualified[3], qualified[3]>>
     ELSE <<qualified[1], qualified[2], qualified[3]>>)
  ELSE IF k = 4 THEN
    LET indices == Shuffled(<<0, 1, 2, 3>>, js)
    IN [i \in 1..4 |-> qualified[indices[i] + 1]]
  ELSE SliceTo(qualified, 3) \o Shuffled(SliceFrom(qualified, 3), js)

\* The seeds drawn for count k from the qualified ids; js are the shuffle's
\* draws, coin is Math.random() > 0.5.
SeedsFor(k, qualified, js, coin) ==
  IF k = 2 THEN Shuffled(qualified, js)
  ELSE IF k = 3 THEN
    (IF coin THEN <<qualified[1], qualified[3], qualified[2]>>
     ELSE <<qualified[1], qualified[2], qualified[3]>>)
  ELSE IF k = 4 THEN
    LET indices == Shuffled(<<0, 1, 2, 3>>, js)
    IN [i \in 1..4 |-> qualified[indices[i] + 1]]
  ELSE SliceTo(qualified, 3) \o Shuffled(SliceFrom(qualified, 3), js)

\* Variant of FirstPlayIns: the count-6 play-in pairs S3 with S4 as for count 5.
FirstPlayIns_SixLikeFive(bottomCount, seeds) ==
  IF bottomCount = 1 THEN <<>>
  ELSE IF bottomCount = 2 \/ bottomCount = 3
    THEN <<KoMatch(PlayInId(0), seeds[4], seeds[5], -10, "play_in")>>
  ELSE PlayInPairs(SliceFrom(seeds, 3), 0)

\* The play-in matches of the 5+ branch for the seeds just drawn
FirstPlayIns(bottomCount, seeds) ==
  IF bottomCount = 1 THEN <<>>
  ELSE IF bottomCount = 2
    THEN <<KoMatch(PlayInId(0), seeds[4], seeds[5], -10, "play_in")>>
  ELSE IF bottomCount = 3
    THEN <<KoMatch(PlayInId(0), seeds[5], seeds[6], -10, "play_in")>>
  ELSE PlayInPairs(SliceFrom(seeds, 3), 0)

\* matchesToAdd for count k and the seeds just drawn
MatchesToAdd(k, seeds) ==
  IF k = 2 THEN <<KoMatch(KoId("ko-final"), seeds[1], seeds[2], -11, "final")>>
  ELSE IF k = 3 THEN <<KoMatch(KoId("ko-playin"), seeds[2], seeds[3], -10, "play_in")>>
  ELSE IF k = 4 THEN
    <<KoMatch(KoId("ko-semi1"), seeds[1], seeds[2], -10, "semi"),
      KoMatch(KoId("ko-semi2"), seeds[3], seeds[4], -10, "semi")>>
  ELSE FirstPlayIns(k - 3, seeds)

startKnockoutStage(s, js, coin) ==
  IF s.knockoutPlayerCount = NoCount \/ s.knockoutPlayerCount < 2 THEN s
  ELSE
    LET groupStandings == computeStandings(s.players, SelectSeq(s.matches, LAMBDA m : m.stage = NoStage))
        qualified == [i \in DOMAIN SliceTo(groupStandings, s.knockoutPlayerCount) |->
                        groupStandings[i].playerId]
    IN IF Len(qualified) < s.knockoutPlayerCount THEN s
       ELSE
         LET seeds == SeedsFor(s.knockoutPlayerCount, qualified, js, coin)
         IN [s EXCEPT !.knockoutSeeds = seeds,
                      !.matches = s.matches \o MatchesToAdd(s.knockoutPlayerCount, seeds)]

\* ---------------------------------------------------- setKnockoutPlayerCount
\* Variant of setKnockoutPlayerCount: no upper limit on the count.
setKnockoutPlayerCount_NoUpperLimit(s, count) ==
  IF count < 2 THEN s
  ELSE [s EXCEPT !.knockoutPlayerCount = count, !.knockoutSeeds = NoSeeds]

setKnockoutPlayerCount(s, count) ==
  IF count < 2 \/ count > Len(s.players) THEN s
  ELSE [s EXCEPT !.knockoutPlayerCount = count, !.knockoutSeeds = NoSeeds]

\* ----------------------------------------------------- determineElimination
Bye == -1

\* rest.unshift(rest.pop()): the first element stays, the last moves to position 1
RotateOnce(rotating) ==
  LET rest == Tail(rotating)
  IN <<Head(rotating)>> \o <<rest[Len(rest)]>> \o SubSeq(rest, 1, Len(rest) - 1)

RECURSIVE RotateTimes(_, _)
RotateTimes(rotating, r) ==
  IF r <= 0 THEN rotating ELSE RotateTimes(RotateOnce(rotating), r - 1)

\* Returns the id of the player on bye, or NoPlayer for null.
getPlayerWithBye(ps, roundIndex, eliminatedPlayerIds) ==
  LET activePlayers == SelectSeq(ps, LAMBDA p : p \notin eliminatedPlayerIds)
  IN IF Len(activePlayers) % 2 = 0 THEN NoPlayer
     ELSE
       LET rotating == RotateTimes(activePlayers \o <<Bye>>, roundIndex)
           count == Len(rotating)
           hits == {i \in 0..((count \div 2) - 1) :
                      \/ (At(rotating, i) = Bye /\ At(rotating, count - 1 - i) # Bye)
                      \/ (At(rotating, count - 1 - i) = Bye /\ At(rotating, i) # Bye)}
       IN IF hits = {} THEN NoPlayer
          ELSE LET i == CHOOSE h \in hits : \A g \in hits : h <= g
               IN IF At(rotating, i) = Bye THEN At(rotating, count - 1 - i)
                  ELSE At(rotating, i)

\* One player's row of roundStandings
RoundRow(p, roundMatches) ==
  LET scored == SelectSeq(roundMatches, HasScores)
      asA == SelectSeq(scored, LAMBDA m : m.playerAId = p)
      asB == SelectSeq(scored, LAMBDA m : m.playerAId # p /\ m.playerBId = p)
      Sum(f) == LET RECURSIVE S(_)
                    S(i) == IF i = 0 THEN 0 ELSE f[i] + S(i - 1)
                IN S(Len(f))
      goalsFor == Sum([i \in DOMAIN asA |-> asA[i].scoreA]) + Sum([i \in DOMAIN asB |-> asB[i].scoreB])
      goalsAgainst == Sum([i \in DOMAIN asA |-> asA[i].scoreB]) + Sum([i \in DOMAIN asB |-> asB[i].scoreA])
      points ==
        Sum([i \in DOMAIN asA |-> IF asA[i].scoreA > asA[i].scoreB THEN 3
                                  ELSE IF asA[i].scoreA = asA[i].scoreB THEN 1 ELSE 0])
        + Sum([i \in DOMAIN asB |-> IF asB[i].scoreB > asB[i].scoreA THEN 3
                                    ELSE IF asB[i].scoreA = asB[i].scoreB THEN 1 ELSE 0])
  IN [playerId |-> p, points |-> points, goalsFor |-> goalsFor,
      goalDifference |-> goalsFor - goalsAgainst]

\* The comparator of roundStandings.sort (ascending)
RoundCompare(a, b) ==
  IF a.points # b.points THEN a.points - b.points
  ELSE IF a.goalDifference # b.goalDifference THEN a.goalDifference - b.goalDifference
  ELSE a.goalsFor - b.goalsFor

\* roundStandings[0] after the stable sort: the first row no other row sorts before
WorstRow(rows) ==
  LET i == CHOOSE i \in DOMAIN rows :
             /\ \A j \in DOMAIN rows : RoundCompare(rows[j], rows[i]) >= 0
             /\ \A j \in 1..(i - 1) : RoundCompare(rows[j], rows[i]) > 0
  IN rows[i]

NoElimination == [playerId |-> NoPlayer, reason |-> "none"]

determineElimination(ps, ms, roundIndex, eliminatedPlayerIds) ==
  LET activePlayers == SelectSeq(ps, LAMBDA p : p \notin eliminatedPlayerIds)
      startedWithOdd == Len(ps) % 2 = 1
      byePlayer == getPlayerWithBye(ps, roundIndex, eliminatedPlayerIds)
      roundMatches == SelectSeq(ms, LAMBDA m :
                        m.roundIndex = roundIndex /\ m.stage = NoStage /\ ~m.isGoldenGoal)
      roundStandings == [i \in DOMAIN activePlayers |-> RoundRow(activePlayers[i], roundMatches)]
  IN IF ~startedWithOdd \/ Len(activePlayers) <= 1 THEN NoElimination
     ELSE IF byePlayer # NoPlayer /\ byePlayer \notin eliminatedPlayerIds
       THEN [playerId |-> byePlayer, reason |-> "bye"]
     ELSE IF roundStandings # <<>> /\ WorstRow(roundStandings).playerId \notin eliminatedPlayerIds
       THEN [playerId |-> WorstRow(roundStandings).playerId, reason |-> "worst_performance"]
     ELSE NoElimination

\* ------------------------------------------------------------ setMatchScore
\* Variant of SameId: the kind of match the id names is not compared.
SameId_IgnoreKind(id, matchId) ==
  id.n = matchId.n /\ id.a = matchId.a /\ id.b = matchId.b

\* m.id === matchId
SameId(id, matchId) == id = matchId

\* s.matches.find((m) => m.id === matchId): the first match with that id
FindMatch(ms, matchId) ==
  LET hits == {i \in DOMAIN ms : SameId(ms[i].id, matchId)}
  IN ms[CHOOSE i \in hits : \A j \in hits : i <= j]

\* Variant of WithScore: the score is also written to every match that has
\* no score yet.
WithScore_AllOpen(ms, matchId, scoreA, scoreB, status) ==
  [i \in DOMAIN ms |->
     IF SameId(ms[i].id, matchId) \/ ~HasScores(ms[i])
     THEN [ms[i] EXCEPT !.scoreA = scoreA, !.scoreB = scoreB, !.status = status]
     ELSE ms[i]]

\* s.matches.map((m) => m.id === matchId ? {...m, scoreA, scoreB, status} : m)
WithScore(ms, matchId, scoreA, scoreB, status) ==
  [i \in DOMAIN ms |->
     IF SameId(ms[i].id, matchId)
     THEN [ms[i] EXCEPT !.scoreA = scoreA, !.scoreB = scoreB, !.status = status]
     ELSE ms[i]]

\* Variant of SemiPair: the two top seeds meet and the play-in winner faces S2.
SemiPair_TopTwo(seeds, fourth) ==
  <<KoMatch(KoId("ko-semi1"), At(seeds, 0), At(seeds, 1), -10, "semi"),
    KoMatch(KoId("ko-semi2"), fourth, At(seeds, 2), -10, "semi")>>

\* The two semifinals every branch builds from the three safe seeds.
SemiPair(seeds, fourth) ==
  <<KoMatch(KoId("ko-semi1"), At(seeds, 0), fourth, -10, "semi"),
    KoMatch(KoId("ko-semi2"), At(seeds, 1), At(seeds, 2), -10, "semi")>>

\* [...playInMatches.flatMap(playerAId, playerBId)] as a set, then
\* s.knockoutSeeds.slice(3).filter((id) => !playedPlayerIds.has(id))
RemainingPlayers(seeds, playInMatches) ==
  LET playedPlayerIds == {playInMatches[i].playerAId : i \in DOMAIN playInMatches}
                         \cup {playInMatches[i].playerBId : i \in DOMAIN playInMatches}
  IN SelectSeq(SliceFrom(seeds, 3), LAMBDA id : id \notin playedPlayerIds)

\* Variant of EliminationStep: the round is tested for completeness on the
\* matches before the score was written.
EliminationStep_StaleRound(s, nextMatches, match) ==
  LET roundIndex == match.roundIndex
      roundMatches == SelectSeq(s.matches, LAMBDA m :
                        m.roundIndex = roundIndex /\ m.stage = NoStage /\ ~m.isGoldenGoal)
      roundComplete == AllScored(roundMatches)
      eliminatedBeforeRound ==
        {s.roundEliminations[i].eliminatedPlayerId :
           i \in {j \in DOMAIN s.roundEliminations : s.roundEliminations[j].roundIndex < roundIndex}}
      activePlayersAtRoundStart == SelectSeq(s.players, LAMBDA p : p \notin eliminatedBeforeRound)
      alreadyEliminatedThisRound ==
        \E i \in DOMAIN s.roundEliminations : s.roundEliminations[i].roundIndex = roundIndex
      elimination == determineElimination(s.players, nextMatches, roundIndex, eliminatedBeforeRound)
  IN IF roundComplete /\ ~alreadyEliminatedThisRound /\ Len(activePlayersAtRoundStart) > 1
        /\ elimination.playerId # NoPlayer
     THEN Append(s.roundEliminations,
                 [roundIndex |-> roundIndex,
                  eliminatedPlayerId |-> elimination.playerId,
                  reason |-> IF elimination.reason = "bye" THEN "bye" ELSE "worst_performance"])
     ELSE s.roundEliminations

\* Variant of EliminationStep: a round that already has an entry is not skipped.
EliminationStep_NoRoundCheck(s, nextMatches, match) ==
  LET roundIndex == match.roundIndex
      roundMatches == SelectSeq(nextMatches, LAMBDA m :
                        m.roundIndex = roundIndex /\ m.stage = NoStage /\ ~m.isGoldenGoal)
      roundComplete == AllScored(roundMatches)
      eliminatedBeforeRound ==
        {s.roundEliminations[i].eliminatedPlayerId :
           i \in {j \in DOMAIN s.roundEliminations : s.roundEliminations[j].roundIndex < roundIndex}}
      activePlayersAtRoundStart == SelectSeq(s.players, LAMBDA p : p \notin eliminatedBeforeRound)
      elimination == determineElimination(s.players, nextMatches, roundIndex, eliminatedBeforeRound)
  IN IF roundComplete /\ Len(activePlayersAtRoundStart) > 1
        /\ elimination.playerId # NoPlayer
     THEN Append(s.roundEliminations,
                 [roundIndex |-> roundIndex,
                  eliminatedPlayerId |-> elimination.playerId,
                  reason |-> IF elimination.reason = "bye" THEN "bye" ELSE "worst_performance"])
     ELSE s.roundEliminations

\* Group stage elimination step (odd number of players): the new roundEliminations.
EliminationStep(s, nextMatches, match) ==
  LET roundIndex == match.roundIndex
      roundMatches == SelectSeq(nextMatches, LAMBDA m :
                        m.roundIndex = roundIndex /\ m.stage = NoStage /\ ~m.isGoldenGoal)
      roundComplete == AllScored(roundMatches)
      eliminatedBeforeRound ==
        {s.roundEliminations[i].eliminatedPlayerId :
           i \in {j \in DOMAIN s.roundEliminations : s.roundEliminations[j].roundIndex < roundIndex}}
      activePlayersAtRoundStart == SelectSeq(s.players, LAMBDA p : p \notin eliminatedBeforeRound)
      alreadyEliminatedThisRound ==
        \E i \in DOMAIN s.roundEliminations : s.roundEliminations[i].roundIndex = roundIndex
      elimination == determineElimination(s.players, nextMatches, roundIndex, eliminatedBeforeRound)
  IN IF roundComplete /\ ~alreadyEliminatedThisRound /\ Len(activePlayersAtRoundStart) > 1
        /\ elimination.playerId # NoPlayer
     THEN Append(s.roundEliminations,
                 [roundIndex |-> roundIndex,
                  eliminatedPlayerId |-> elimination.playerId,
                  reason |-> IF elimination.reason = "bye" THEN "bye" ELSE "worst_performance"])
     ELSE s.roundEliminations

\* Knockout: the matches appended when a play-in score completes the play-in matches.
PlayInStep(s, nextMatches) ==
  LET playInMatches == OfStage(nextMatches, "play_in")
      allPlayInPlayed == AllScored(playInMatches)
      hasSemi == \E i \in DOMAIN nextMatches : nextMatches[i].stage = "semi"
      hasFinal == \E i \in DOMAIN nextMatches : nextMatches[i].stage = "final"
      playInWinners == [i \in DOMAIN playInMatches |-> WinnerOf(playInMatches[i])]
      k == s.knockoutPlayerCount
      seeds == s.knockoutSeeds
      remainingPlayers == RemainingPlayers(seeds, playInMatches)
      bottomCount == k - 3
      nextRoundPlayers == playInWinners \o remainingPlayers
      nextRoundMatches == PlayInPairs(nextRoundPlayers, Len(playInMatches))
  IN IF ~allPlayInPlayed THEN <<>>
     ELSE IF k = 3 /\ ~hasFinal
       THEN <<KoMatch(KoId("ko-final"), At(seeds, 0), At(playInWinners, 0), -11, "final")>>
     ELSE IF k = 5 /\ ~hasSemi
       THEN (IF Len(playInWinners) = 1 THEN SemiPair(seeds, playInWinners[1]) ELSE <<>>)
     ELSE IF k = 6
       THEN (IF Len(playInWinners) = 1 /\ Len(remainingPlayers) = 1
               THEN <<KoMatch(PlayInId(1), At(seeds, 3), playInWinners[1], -10, "play_in")>>
             ELSE IF Len(playInWinners) = 1 /\ Len(remainingPlayers) = 0
               THEN SemiPair(seeds, playInWinners[1])
             ELSE <<>>)
     ELSE IF k >= 7
       THEN (IF bottomCount > 2 /\ Len(playInWinners) > 1
               THEN (IF Len(nextRoundPlayers) > 1
                       THEN (IF Len(nextRoundMatches) > 0 THEN nextRoundMatches
                             ELSE IF Len(nextRoundPlayers) = 1
                               THEN SemiPair(seeds, nextRoundPlayers[1])
                             ELSE <<>>)
                     ELSE IF Len(nextRoundPlayers) = 1
                       THEN SemiPair(seeds, nextRoundPlayers[1])
                     ELSE <<>>)
             ELSE IF Len(playInWinners) = 1 /\ bottomCount = 2
               THEN SemiPair(seeds, playInWinners[1])
             ELSE <<>>)
     ELSE <<>>

\* Variant of FinalPair: the third-place match copies the winners.
FinalPair_ThirdFromWinners(semis) ==
  <<KoMatch(KoId("ko-final"), WinnerOf(semis[1]), WinnerOf(semis[2]), -11, "final"),
    KoMatch(KoId("ko-third"), WinnerOf(semis[1]), WinnerOf(semis[2]), -11, "third_place")>>

\* Variant of FinalPair: only the third-place match is built.
FinalPair_ThirdOnly(semis) ==
  <<KoMatch(KoId("ko-third"), LoserOf(semis[1]), LoserOf(semis[2]), -11, "third_place")>>

\* The final and the third-place match built from semis[0] and semis[1].
FinalPair(semis) ==
  <<KoMatch(KoId("ko-final"), WinnerOf(semis[1]), WinnerOf(semis[2]), -11, "final"),
    KoMatch(KoId("ko-third"), LoserOf(semis[1]), LoserOf(semis[2]), -11, "third_place")>>

\* Knockout: the matches appended when a semifinal score completes the semifinals.
SemiStep(nextMatches) ==
  LET semis == OfStage(nextMatches, "semi")
      bothPlayed == AllScored(semis)
      hasFinal == \E i \in DOMAIN nextMatches : nextMatches[i].stage = "final"
  IN IF bothPlayed /\ ~hasFinal /\ Len(semis) >= 2 THEN FinalPair(semis) ELSE <<>>

\* Variant of GoldenGoalRejected: no submitted pair is rejected.
GoldenGoalRejected_Never(scoreA, scoreB) == FALSE

\* if (scoreA + scoreB !== 1 || (scoreA !== 0 && scoreA !== 1)) return s
GoldenGoalRejected(scoreA, scoreB) ==
  scoreA + scoreB # 1 \/ (scoreA # 0 /\ scoreA # 1)

setMatchScore(s, matchId, scoreA, scoreB) ==
  IF ~\E i \in DOMAIN s.matches : SameId(s.matches[i].id, matchId) THEN s
  ELSE
    LET match == FindMatch(s.matches, matchId)
        isGroupStageMatch == match.stage = NoStage /\ match.roundIndex >= 0
    IN IF match.isGoldenGoal
       THEN (IF GoldenGoalRejected(scoreA, scoreB) THEN s
             ELSE [s EXCEPT !.matches =
                     WithScore(s.matches, matchId,
                               IF scoreA >= 1 THEN 1 ELSE 0,
                               IF scoreB >= 1 THEN 1 ELSE 0, "golden_goal")])
       ELSE
         LET scored == WithScore(s.matches, matchId, scoreA, scoreB, "played")
             eliminations ==
               IF isGroupStageMatch /\ Len(s.players) % 2 = 1
               THEN EliminationStep(s, scored, match)
               ELSE s.roundEliminations
             afterPlayIn ==
               IF match.stage = "play_in" /\ s.knockoutSeeds # NoSeeds
                  /\ s.knockoutPlayerCount # NoCount
               THEN scored \o PlayInStep(s, scored)
               ELSE scored
             afterSemi ==
               IF match.stage = "semi" /\ s.knockoutSeeds # NoSeeds
               THEN afterPlayIn \o SemiStep(afterPlayIn)
               ELSE afterPlayIn
         IN [s EXCEPT !.matches = afterSemi, !.roundEliminations = eliminations]

\* ------------------------------------------------------ advanceToFinalStage
\* Position of a play-in id under a.id.localeCompare(b.id): 'ko-playin' sorts
\* before every `ko-playin-${n}`, and these by n (n stays a single digit).
PlayInIdKey(id) == IF id.kind = "ko-playin" THEN -1 ELSE id.n

\* Variant of LastById: the first play-in match is taken for the last.
LastById_First(playInMatches) == playInMatches[1]

\* The last element of playInMatches.sort(by id); the sort is stable.
LastById(playInMatches) ==
  LET i == CHOOSE i \in DOMAIN playInMatches :
             /\ \A j \in DOMAIN playInMatches :
                  PlayInIdKey(playInMatches[j].id) <= PlayInIdKey(playInMatches[i].id)
             /\ \A j \in (i + 1)..Len(playInMatches) :
                  PlayInIdKey(playInMatches[j].id) < PlayInIdKey(playInMatches[i].id)
  IN playInMatches[i]

\* Variant of AdvanceSemis: the check for an existing final is missing.
AdvanceSemis_NoFinalCheck(s) ==
  LET semis == OfStage(s.matches, "semi")
      bothPlayed == Len(semis) >= 2 /\ AllScored(semis)
  IN IF bothPlayed
     THEN [s EXCEPT !.matches = s.matches \o FinalPair(semis)]
     ELSE s

\* The semifinal check at the end of advanceToFinalStage.
AdvanceSemis(s) ==
  LET semis == OfStage(s.matches, "semi")
      bothPlayed == Len(semis) >= 2 /\ AllScored(semis)
      hasFinal == \E i \in DOMAIN s.matches : s.matches[i].stage = "final"
  IN IF bothPlayed /\ ~hasFinal
     THEN [s EXCEPT !.matches = s.matches \o FinalPair(semis)]
     ELSE s

advanceToFinalStage(s) ==
  IF s.knockoutSeeds = NoSeeds \/ s.knockoutPlayerCount = NoCount THEN s
  ELSE
    LET playInMatches == OfStage(s.matches, "play_in")
        allPlayInPlayed == Len(playInMatches) > 0 /\ AllScored(playInMatches)
        hasSemi == \E i \in DOMAIN s.matches : s.matches[i].stage = "semi"
        hasFinalMatch == \E i \in DOMAIN s.matches : s.matches[i].stage = "final"
        playInWinners == [i \in DOMAIN playInMatches |-> WinnerOf(playInMatches[i])]
        k == s.knockoutPlayerCount
        seeds == s.knockoutSeeds
        remainingPlayers == RemainingPlayers(seeds, playInMatches)
        nextRoundPlayers == playInWinners \o remainingPlayers
        nextRoundMatches == PlayInPairs(nextRoundPlayers, Len(playInMatches))
        Add(ms) == [s EXCEPT !.matches = s.matches \o ms]
    IN IF allPlayInPlayed /\ ~hasFinalMatch /\ k = 3 /\ Len(playInWinners) = 1
         THEN Add(<<KoMatch(KoId("ko-final"), At(seeds, 0), playInWinners[1], -11, "final")>>)
       ELSE IF allPlayInPlayed /\ ~hasSemi /\ k >= 5
         THEN (IF k = 5
                 THEN (IF Len(playInWinners) = 1 THEN Add(SemiPair(seeds, playInWinners[1]))
                       ELSE AdvanceSemis(s))
               ELSE IF k = 6
                 THEN (IF Len(playInMatches) = 1 /\ Len(playInWinners) = 1
                          /\ Len(remainingPlayers) = 1
                         THEN Add(<<KoMatch(PlayInId(1), At(seeds, 3), playInWinners[1],
                                            -10, "play_in")>>)
                       ELSE IF Len(playInMatches) = 2 /\ Len(remainingPlayers) = 0
                         THEN Add(SemiPair(seeds, WinnerOf(LastById(playInMatches))))
                       ELSE AdvanceSemis(s))
               ELSE (IF Len(nextRoundPlayers) > 1
                       THEN (IF Len(nextRoundMatches) > 0 THEN Add(nextRoundMatches)
                             ELSE IF Len(nextRoundPlayers) = 1
                               THEN Add(SemiPair(seeds, nextRoundPlayers[1]))
                             ELSE AdvanceSemis(s))
                     ELSE IF Len(nextRoundPlayers) = 1
                       THEN Add(SemiPair(seeds, nextRoundPlayers[1]))
                     ELSE AdvanceSemis(s)))
       ELSE AdvanceSemis(s)

\* ---------------------------------------------------------- knockoutResults

NoResults == [firstId |-> NoPlayer, secondId |-> NoPlayer, thirdId |-> NoPlayer]

\* Variant of knockoutResults: first and second are taken the wrong way round.
knockoutResults_Swapped(ms) ==
  LET finals == OfStage(ms, "final")
      thirds == OfStage(ms, "third_place")
  IN IF finals = <<>> \/ ~HasScores(finals[1]) THEN NoResults
     ELSE
       LET finalMatch == finals[1]
           firstId == LoserOf(finalMatch)
           secondId == WinnerOf(finalMatch)
       IN IF thirds # <<>> /\ HasScores(thirds[1])
          THEN [firstId |-> firstId, secondId |-> secondId, thirdId |-> WinnerOf(thirds[1])]
          ELSE [firstId |-> firstId, secondId |-> secondId, thirdId |-> NoPlayer]

\* null is NoResults; thirdId: null is NoPlayer
knockoutResults(ms) ==
  LET finals == OfStage(ms, "final")
      thirds == OfStage(ms, "third_place")
  IN IF finals = <<>> \/ ~HasScores(finals[1]) THEN NoResults
     ELSE
       LET finalMatch == finals[1]
           firstId == WinnerOf(finalMatch)
           secondId == LoserOf(finalMatch)
       IN IF thirds # <<>> /\ HasScores(thirds[1])
          THEN [firstId |-> firstId, secondId |-> secondId, thirdId |-> WinnerOf(thirds[1])]
          ELSE [firstId |-> firstId, secondId |-> secondId, thirdId |-> NoPlayer]

\* ---------------------------------------------------------- startTournament
\* Variant of RoundPairs: position i is paired with its neighbour.
RoundPairs_Neighbours(rotating, roundIndex) ==
  LET count == Len(rotating)
      pair(i) == [playerAId |-> At(rotating, 2 * i), playerBId |-> At(rotating, 2 * i + 1),
                  roundIndex |-> roundIndex]
      all == [i \in 1..(count \div 2) |-> pair(i - 1)]
  IN SelectSeq(all, LAMBDA m : m.playerAId # Bye /\ m.playerBId # Bye)

\* generateRoundRobinSchedule (lib/roundRobin): the circle method. The first
\* position is fixed, the others rotate by one position per round (the rotation
\* getPlayerWithBye replays), an odd list gets a bye slot, and position i meets
\* position count - 1 - i; a pair holding the bye slot is no match.
RoundPairs(rotating, roundIndex) ==
  LET count == Len(rotating)
      pair(i) == [playerAId |-> At(rotating, i), playerBId |-> At(rotating, count - 1 - i),
                  roundIndex |-> roundIndex]
      all == [i \in 1..(count \div 2) |-> pair(i - 1)]
  IN SelectSeq(all, LAMBDA m : m.playerAId # Bye /\ m.playerBId # Bye)

RECURSIVE RoundsFrom(_, _, _)
RoundsFrom(rotating, roundIndex, rounds) ==
  IF roundIndex >= rounds THEN <<>>
  ELSE RoundPairs(rotating, roundIndex)
       \o RoundsFrom(RotateOnce(rotating), roundIndex + 1, rounds)

generateRoundRobinSchedule(ps) ==
  IF Len(ps) < 2 THEN <<>>
  ELSE LET rotating == IF Len(ps) % 2 = 1 THEN ps \o <<Bye>> ELSE ps
       IN RoundsFrom(rotating, 0, Len(rotating) - 1)

\* startTournament: with fewer than two players nothing changes; otherwise the
\* round-robin schedule replaces the matches and the knockout state and the
\* elimination log are cleared.
startTournament(s) ==
  IF Len(s.players) < 2 THEN s
  ELSE
    LET schedule == generateRoundRobinSchedule(s.players)
        ms == [i \in DOMAIN schedule |->
                 [id |-> GroupId(i - 1, schedule[i].playerAId, schedule[i].playerBId),
                  playerAId |-> schedule[i].playerAId,
                  playerBId |-> schedule[i].playerBId,
                  roundIndex |-> schedule[i].roundIndex,
                  scoreA |-> NoScore, scoreB |-> NoScore, status |-> "pending",
                  isGoldenGoal |-> FALSE, stage |-> NoStage]]
    IN [s EXCEPT !.matches = ms, !.knockoutSeeds = NoSeeds, !.roundEliminations = <<>>]

resetTournament(s) ==
  [s EXCEPT !.matches = <<>>, !.knockoutSeeds = NoSeeds,
            !.knockoutPlayerCount = NoCount, !.roundEliminations = <<>>]

\* ------------------------------------------------------------- sample scores
SAMPLE_SCORES ==
  << <<2, 1>>, <<0, 0>>, <<3, 1>>, <<1, 2>>, <<2, 2>>, <<1, 0>>, <<3, 0>>,
     <<0, 1>>, <<2, 0>>, <<1, 3>>, <<0, 2>>, <<1, 1>>, <<3, 2>>, <<2, 3>> >>

\* The decimal digits of the index i inside the id `m-${i}-...`
RECURSIVE Digits(_)
Digits(i) == IF i < 10 THEN <<i>> ELSE Digits(i \div 10) \o <<i % 10>>

\* u sorts before v as strings of digits followed by '-'
RECURSIVE DigitsBefore(_, _)
DigitsBefore(u, v) ==
  IF u = <<>> THEN v # <<>>
  ELSE IF v = <<>> THEN FALSE
  ELSE IF Head(u) # Head(v) THEN Head(u) < Head(v)
  ELSE DigitsBefore(Tail(u), Tail(v))

\* a.id.localeCompare(b.id) < 0 for two round-robin ids
IdBefore(a, b) == DigitsBefore(Digits(a.id.n), Digits(b.id.n))

\* SAMPLE_SCORES[idx % SAMPLE_SCORES.length] written into m
WithSample(m, idx) ==
  LET sc == SAMPLE_SCORES[(idx % Len(SAMPLE_SCORES)) + 1]
  IN [m EXCEPT !.scoreA = sc[1], !.scoreB = sc[2], !.status = "played"]

fillFirstRoundWithSampleScores(s) ==
  LET InFirst(m) == ~m.isGoldenGoal /\ m.roundIndex = 0
      firstRoundMatches == SelectSeq(s.matches, InFirst)
      idx(m) == Cardinality({i \in DOMAIN firstRoundMatches :
                               IdBefore(firstRoundMatches[i], m)})
  IN IF Len(firstRoundMatches) = 0 THEN s
     ELSE [s EXCEPT !.matches =
             [i \in DOMAIN s.matches |->
                IF InFirst(s.matches[i]) THEN WithSample(s.matches[i], idx(s.matches[i]))
                ELSE s.matches[i]]]

fillAllRoundsTillSeven(s) ==
  LET InRounds(m) == ~m.isGoldenGoal /\ m.roundIndex >= 0 /\ m.roundIndex <= 6
      roundRobin == SelectSeq(s.matches, InRounds)
      Before(a, b) == \/ a.roundIndex < b.roundIndex
                      \/ (a.roundIndex = b.roundIndex /\ IdBefore(a, b))
      idx(m) == Cardinality({i \in DOMAIN roundRobin : Before(roundRobin[i], m)})
  IN IF Len(roundRobin) = 0 THEN s
     ELSE [s EXCEPT !.matches =
             [i \in DOMAIN s.matches |->
                IF InRounds(s.matches[i]) THEN WithSample(s.matches[i], idx(s.matches[i]))
                ELSE s.matches[i]]]

\* ----------------------------------------------- addGoldenGoalMatchesForTies
\* getTiedPairs (lib/tieBreak): every unordered pair of rows flagged isTied that
\* share a rank, in standings order.
RECURSIVE PairsFrom(_, _, _)
PairsFrom(rows, i, j) ==
  IF i >= Len(rows) THEN <<>>
  ELSE IF j > Len(rows) THEN PairsFrom(rows, i + 1, i + 2)
  ELSE (IF rows[i].isTied /\ rows[j].isTied /\ rows[i].rank = rows[j].rank
          THEN << <<rows[i].playerId, rows[j].playerId>> >> ELSE <<>>)
       \o PairsFrom(rows, i, j + 1)

getTiedPairs(standings) == PairsFrom(standings, 1, 2)

\* [playerAId, playerBId].sort().join('-')
PairKey(a, b) == IF a <= b THEN <<a, b>> ELSE <<b, a>>

GoldenMatch(a, b) ==
  [id |-> GoldenId(PairKey(a, b)[1], PairKey(a, b)[2]),
   playerAId |-> a, playerBId |-> b, roundIndex |-> -1,
   scoreA |-> NoScore, scoreB |-> NoScore, status |-> "golden_goal",
   isGoldenGoal |-> TRUE, stage |-> NoStage]

\* Variant of GoldenToAdd: pairs that already have a match are not skipped.
RECURSIVE GoldenToAdd_NoSkip(_, _)
GoldenToAdd_NoSkip(tiedPairs, existingPairs) ==
  IF tiedPairs = <<>> THEN <<>>
  ELSE <<GoldenMatch(Head(tiedPairs)[1], Head(tiedPairs)[2])>>
       \o GoldenToAdd_NoSkip(Tail(tiedPairs), existingPairs)

\* The loop over tiedPairs: toAdd, with existingPairs growing as it goes
RECURSIVE GoldenToAdd(_, _)
GoldenToAdd(tiedPairs, existingPairs) ==
  IF tiedPairs = <<>> THEN <<>>
  ELSE LET key == PairKey(Head(tiedPairs)[1], Head(tiedPairs)[2])
       IN IF key \in existingPairs
          THEN GoldenToAdd(Tail(tiedPairs), existingPairs)
          ELSE <<GoldenMatch(Head(tiedPairs)[1], Head(tiedPairs)[2])>>
               \o GoldenToAdd(Tail(tiedPairs), existingPairs \cup {key})

addGoldenGoalMatchesForTies(s) ==
  LET standings == computeStandings(s.players, s.matches)
      tiedPairs == getTiedPairs(standings)
      golden == SelectSeq(s.matches, LAMBDA m : m.isGoldenGoal)
      existingPairs == {PairKey(golden[i].playerAId, golden[i].playerBId) : i \in DOMAIN golden}
      toAdd == GoldenToAdd(tiedPairs, existingPairs)
  IN IF Len(tiedPairs) = 0 THEN s
     ELSE IF Len(toAdd) > 0 THEN [s EXCEPT !.matches = s.matches \o toAdd]
     ELSE s

\* toAdd as one invocation computes it from the standings and matches of the
\* render it was created in.
MissingGoldenMatches(s) ==
  LET standings == computeStandings(s.players, s.matches)
      tiedPairs == getTiedPairs(standings)
      golden == SelectSeq(s.matches, LAMBDA m : m.isGoldenGoal)
      existingPairs == {PairKey(golden[i].playerAId, golden[i].playerBId) : i \in DOMAIN golden}
  IN IF Len(tiedPairs) = 0 THEN <<>> ELSE GoldenToAdd(tiedPairs, existingPairs)

\* ------------------------------------------------------- the state machine
\* setState(updater): the updater's result becomes the state.
InstallState(n) ==
  /\ players' = n.players
  /\ matches' = n.matches
  /\ knockoutPlayerCount' = n.knockoutPlayerCount
  /\ knockoutSeeds' = n.knockoutSeeds
  /\ roundEliminations' = n.roundEliminations

\* A synchronous operation: setState is called at once and no call is left
\* waiting.
Install(n) ==
  /\ InstallState(n)
  /\ UNCHANGED <<inFlight, submitted, updaters>>

\* addPlayer called n times on the empty initial state (loadState without storage)
InitWith(n) ==
  /\ players = [i \in 1..n |-> i]
  /\ matches = <<>>
  /\ knockoutPlayerCount = NoCount
  /\ knockoutSeeds = NoSeeds
  /\ roundEliminations = <<>>
  /\ inFlight = {}
  /\ submitted = 0
  /\ updaters = <<>>

\* How many elements the shuffle of startKnockoutStage runs over for count k
ShuffleSize(k) == IF k = 2 \/ k = 4 THEN k ELSE IF k >= 5 THEN k - 3 ELSE 1

SetKnockoutPlayerCount ==
  \E count \in 1..(Len(players) + 1) : Install(setKnockoutPlayerCount(state, count))

StartKnockoutStage==
  \E js \in ShuffleDraws(ShuffleSize(knockoutPlayerCount)),
     coin \in (IF knockoutPlayerCount = 3 THEN BOOLEAN ELSE {FALSE}) :
    LET n == startKnockoutStage(state, js, coin)
    IN Install(n)

SetMatchScore==
  \E i \in DOMAIN matches : \E sc \in ScoresFor(matches[i]) :
    LET n == setMatchScore(state, matches[i].id, sc[1], sc[2])
    IN Install(n)

AdvanceToFinalStage==
  LET n == advanceToFinalStage(state)
  IN Install(n)

StartTournament ==
  LET n == startTournament(state)
  IN Install(n)

ResetTournament ==
  LET n == resetTournament(state)
  IN Install(n)

FillFirstRoundWithSampleScores ==
  LET n == fillFirstRoundWithSampleScores(state)
  IN Install(n)

FillAllRoundsTillSeven ==
  LET n == fillAllRoundsTillSeven(state)
  IN Install(n)

AddGoldenGoalMatchesForTies ==
  LET n == addGoldenGoalMatchesForTies(state)
  IN Install(n)

\* The match list stays within the bound of the specification.
FitsApi(ms) == Len(ms) <= ApiMatches

FitsRun(ms) == Len(OfStage(ms, "play_in")) <= MaxPlayIn

\* The context's operations called in any order.
Init == \E n \in 2..ApiPlayers : InitWith(n)

Next ==
  \/ StartTournament /\ FitsApi(matches')
  \/ SetKnockoutPlayerCount
  \/ StartKnockoutStage /\ FitsApi(matches')
  \/ SetMatchScore /\ FitsApi(matches')
  \/ AdvanceToFinalStage /\ FitsApi(matches')

Spec == Init /\ [][Next]_vars

\* One knockout run: TournamentView offers the count buttons and the start
\* button only while knockoutSeeds is null, so the count is fixed and the stage
\* started before any knockout match exists; scores, corrections and
\* advanceToFinalStage then come in any order.
InitRun == InitWith(MaxPlayers)

ChooseCount == knockoutSeeds = NoSeeds /\ SetKnockoutPlayerCount

StartRun == knockoutSeeds = NoSeeds /\ StartKnockoutStage

NextRun ==
  \/ ChooseCount
  \/ StartRun
  \/ SetMatchScore /\ FitsRun(matches')
  \/ AdvanceToFinalStage /\ FitsRun(matches')

SpecRun == InitRun /\ [][NextRun]_vars

\* The same run with enough players for a count of 7, where the play-in
\* stage has more than two rounds.
InitLongRun == InitWith(LongRunPlayers)

SpecLongRun == InitLongRun /\ [][NextRun]_vars

\* Seeding after a group stage: the schedule is generated, the sample scores
\* fill it, the count is chosen and the knockout stage started.
InitSeed == \E n \in 2..SeedPlayers : InitWith(n)

NextSeed ==
  \/ StartTournament
  \/ FillFirstRoundWithSampleScores
  \/ FillAllRoundsTillSeven
  \/ ChooseCount
  \/ StartRun

SpecSeed == InitSeed /\ [][NextSeed]_vars


\* The group stage: the schedule is generated, scores are submitted and
\* corrected in any order and the sample scores fill rounds.
InitGroup == \E n \in 2..GroupPlayers : InitWith(n)

NextGroup ==
  \/ StartTournament
  \/ SetMatchScore
  \/ FillFirstRoundWithSampleScores
  \/ FillAllRoundsTillSeven
  \/ ResetTournament

SpecGroup == InitGroup /\ [][NextGroup]_vars

\* Tie resolution: the effect of GoldenGoalPlayoff calls
\* addGoldenGoalMatchesForTies once every round-robin match is played and the
\* standings flag a tie; scores of all matches are submitted and corrected in
\* any order, and the sample scores fill the first round.
InitGolden == \E n \in 2..GoldenPlayers : InitWith(n)

ResolveTies ==
  LET roundRobinMatches == SelectSeq(matches, LAMBDA m : ~m.isGoldenGoal /\ m.roundIndex >= 0)
      allRoundRobinPlayed == Len(roundRobinMatches) > 0 /\ AllScored(roundRobinMatches)
      standings == computeStandings(players, matches)
      hasTies == \E i \in DOMAIN standings : standings[i].isTied
  IN /\ hasTies
     /\ allRoundRobinPlayed
     /\ AddGoldenGoalMatchesForTies

\* The match list, golden-goal matches included, stays within the bound.
FitsGolden(ms) == Len(ms) <= MaxGroupMatches

NextGolden ==
  \/ StartTournament /\ FitsGolden(matches')
  \/ SetMatchScore
  \/ FillFirstRoundWithSampleScores
  \/ ResolveTies /\ FitsGolden(matches')

SpecGolden == InitGolden /\ [][NextGolden]_vars

\* The context version whose setMatchScore awaits getActiveTournamentId()
\* before it calls setState: a call is in flight from its submission until its
\* lookup resolves, and the lookups are network requests that resolve in any
\* order. The scores of the first round are submitted, at most MaxSubmissions
\* of them, for a tournament that has been started.
InitAsync ==
  \E n \in 2..AsyncPlayers :
    LET s == startTournament([players |-> [i \in 1..n |-> i], matches |-> <<>>,
                              knockoutPlayerCount |-> NoCount,
                              knockoutSeeds |-> NoSeeds,
                              roundEliminations |-> <<>>])
    IN /\ players = s.players
       /\ matches = s.matches
       /\ knockoutPlayerCount = s.knockoutPlayerCount
       /\ knockoutSeeds = s.knockoutSeeds
       /\ roundEliminations = s.roundEliminations
       /\ inFlight = {}
       /\ submitted = 0
       /\ updaters = <<>>

\* setMatchScore(matchId, scoreA, scoreB) up to its await: the lookup starts.
SubmitMatchScore ==
  /\ submitted < MaxSubmissions
  /\ \E i \in DOMAIN matches : \E sc \in ScorePairs :
       /\ matches[i].roundIndex = 0
       /\ inFlight' = inFlight \cup {[seq |-> submitted + 1, matchId |-> matches[i].id,
                                      scoreA |-> sc[1], scoreB |-> sc[2]]}
  /\ submitted' = submitted + 1
  /\ UNCHANGED updaters
  /\ UNCHANGED <<players, matches, knockoutPlayerCount, knockoutSeeds, roundEliminations>>

\* The lookup of one call in flight resolves and its updater is applied.
ResolveLookup ==
  \E c \in inFlight :
    /\ InstallState(setMatchScore(state, c.matchId, c.scoreA, c.scoreB))
    /\ inFlight' = inFlight \ {c}
    /\ UNCHANGED <<submitted, updaters>>

NextAsync ==
  \/ SubmitMatchScore
  \/ ResolveLookup

SpecAsync == InitAsync /\ [][NextAsync]_vars

\* A group stage played round by round: after startTournament the open
\* matches of the earliest unfinished round are scored in any order, until
\* MaxPlayed matches have a score.
InitOdd == \E n \in 2..OddPlayers : InitWith(n)

PlayRound ==
  LET open == {i \in DOMAIN matches :
                 /\ matches[i].stage = NoStage
                 /\ ~matches[i].isGoldenGoal
                 /\ ~HasScores(matches[i])}
      played == {i \in DOMAIN matches : HasScores(matches[i])}
  IN /\ Cardinality(played) < MaxPlayed
     /\ \E i \in open : \E sc \in ScorePairs :
          /\ \A j \in open : matches[i].roundIndex <= matches[j].roundIndex
          /\ Install(setMatchScore(state, matches[i].id, sc[1], sc[2]))

NextOdd ==
  \/ matches = <<>> /\ StartTournament
  \/ PlayRound

SpecOdd == InitOdd /\ [][NextOdd]_vars

\* Overlapping invocations of addGoldenGoalMatchesForTies: an invocation
\* computes toAdd from the rendered state and hands setState an updater that
\* appends it; the updaters wait in the queue and are applied in call order.
\* While updaters wait, the rendered state is the one every invocation reads.
InitOverlap == \E n \in 2..GoldenPlayers : InitWith(n)

CallAddGoldenGoalMatchesForTies ==
  LET roundRobinMatches == SelectSeq(matches, LAMBDA m : ~m.isGoldenGoal /\ m.roundIndex >= 0)
      allRoundRobinPlayed == Len(roundRobinMatches) > 0 /\ AllScored(roundRobinMatches)
      standings == computeStandings(players, matches)
      hasTies == \E i \in DOMAIN standings : standings[i].isTied
      toAdd == MissingGoldenMatches(state)
  IN /\ hasTies
     /\ allRoundRobinPlayed
     /\ Len(updaters) < MaxCalls
     /\ Len(toAdd) > 0
     /\ updaters' = Append(updaters, toAdd)
     /\ UNCHANGED <<players, matches, knockoutPlayerCount, knockoutSeeds,
                    roundEliminations, inFlight, submitted>>

\* setState((s) => ({ ...s, matches: [...s.matches, ...toAdd] })) of the
\* queued updaters, all applied before the next render.
ApplyUpdaters ==
  LET RECURSIVE Flat(_)
      Flat(q) == IF q = <<>> THEN <<>> ELSE Head(q) \o Flat(Tail(q))
  IN /\ updaters # <<>>
     /\ InstallState([state EXCEPT !.matches = matches \o Flat(updaters)])
     /\ updaters' = <<>>
     /\ UNCHANGED <<inFlight, submitted>>

NextOverlap ==
  \/ updaters = <<>> /\ StartTournament /\ FitsGolden(matches')
  \/ updaters = <<>> /\ SetMatchScore
  \/ CallAddGoldenGoalMatchesForTies
  \/ ApplyUpdaters /\ FitsGolden(matches')

SpecOverlap == InitOverlap /\ [][NextOverlap]_vars

\* A tournament played in order. With up to FramePlayers entrants the
\* schedule is generated and the group scores are submitted and corrected; ties
\* get their golden-goal matches, which are then the ones scored; once every
\* round-robin match has a score the count is chosen and the knockout stage
\* started, and from then on the knockout matches are the ones scored. With
\* TwoRoundCount entrants the knockout stage is started without a group stage
\* and for all of them, which gives it play-in rounds. At most MaxFrameScored matches carry
\* a score and the list holds at most MaxFrameMatches matches.
\* The count whose play-in stage has two rounds (k === 6), the second one
\* created by advanceToFinalStage.
TwoRoundCount == 6

InitFrame == \E n \in (2..FramePlayers) \cup {TwoRoundCount} : InitWith(n)

GroupComplete ==
  LET roundRobinMatches == SelectSeq(matches, LAMBDA m : ~m.isGoldenGoal /\ m.roundIndex >= 0)
  IN Len(roundRobinMatches) > 0 /\ AllScored(roundRobinMatches)

PlaysGroupStage == Len(players) <= FramePlayers

ReadyForKnockout == PlaysGroupStage => GroupComplete

\* Without a group stage every entrant goes to the knockout stage.
EveryoneOrGroup(count) == PlaysGroupStage \/ count = Len(players)

FitsFrame(ms) ==
  /\ Cardinality({i \in DOMAIN ms : HasScores(ms[i])}) <= MaxFrameScored
  /\ Len(ms) <= MaxFrameMatches

\* 0 for a group match, 1 for a golden-goal match, 2 for a knockout match
StageRank(m) == IF m.stage # NoStage THEN 2 ELSE IF m.isGoldenGoal THEN 1 ELSE 0

ScoreCurrentStage ==
  \E i \in DOMAIN matches : \E sc \in ScoresFor(matches[i]) :
    /\ \A j \in DOMAIN matches : StageRank(matches[j]) <= StageRank(matches[i])
    /\ Install(setMatchScore(state, matches[i].id, sc[1], sc[2]))

NextFrame ==
  \/ matches = <<>> /\ PlaysGroupStage /\ StartTournament
  \/ ScoreCurrentStage /\ FitsFrame(matches')
  \/ knockoutSeeds = NoSeeds /\ ResolveTies /\ FitsFrame(matches')
  \/ ReadyForKnockout /\ ChooseCount /\ EveryoneOrGroup(knockoutPlayerCount')
  \/ ReadyForKnockout /\ StartRun /\ FitsFrame(matches')
  \/ AdvanceToFinalStage /\ FitsFrame(matches')

SpecFrame == InitFrame /\ [][NextFrame]_vars

\* A knockout stage for all of LongRunPlayers entrants: the count is the
\* number of entrants, the stage is started, and the open matches are scored
\* in any order, with advanceToFinalStage at any time, while the list holds at
\* most MaxLongPlayIn play-in matches.
FitsPlayIn(ms) == Len(OfStage(ms, "play_in")) <= MaxLongPlayIn

ScoreOpenMatch ==
  \E i \in DOMAIN matches : \E sc \in ScoresFor(matches[i]) :
    /\ ~HasScores(matches[i])
    /\ Install(setMatchScore(state, matches[i].id, sc[1], sc[2]))

NextPlayIn ==
  \/ ChooseCount /\ knockoutPlayerCount' = Len(players)
  \/ StartRun
  \/ ScoreOpenMatch /\ FitsPlayIn(matches')
  \/ AdvanceToFinalStage /\ FitsPlayIn(matches')

SpecPlayIn == InitLongRun /\ [][NextPlayIn]_vars

\* A knockout run played to its end: the count is chosen among 2..6, the
\* stage is started, every pending knockout match is eventually given a
\* decisive score, and advanceToFinalStage is eventually invoked whenever it
\* has something to create.
DecisivePairs == {sc \in ScorePairs : sc[1] # sc[2]}

ScoreDecisively ==
  \E i \in DOMAIN matches : \E sc \in DecisivePairs :
    /\ matches[i].stage # NoStage
    /\ ~HasScores(matches[i])
    /\ Install(setMatchScore(state, matches[i].id, sc[1], sc[2]))

NextFinish ==
  \/ ChooseCount /\ knockoutPlayerCount' <= TwoRoundCount
  \/ StartRun
  \/ ScoreDecisively
  \/ AdvanceToFinalStage

SpecFinish ==
  /\ InitRun
  /\ [][NextFinish]_vars
  /\ WF_vars(ScoreDecisively)
  /\ WF_vars(AdvanceToFinalStage)

\* ------------------------------------------------------------------ claims
\* Vocabulary of the claims.
\* A match of the given stage between a and b that has no score yet.
IsPending(m, stage, a, b) ==
  /\ m.stage = stage
  /\ m.playerAId = a
  /\ m.playerBId = b
  /\ m.scoreA = NoScore
  /\ m.scoreB = NoScore
  /\ m.status = "pending"

\* A match with both scores set and one side ahead.
Decisive(m) == HasScores(m) /\ m.scoreA # m.scoreB

\* The participant who scored strictly more / strictly less in a decisive match.
StrictWinner(m) ==
  IF m.scoreA > m.scoreB THEN m.playerAId
  ELSE IF m.scoreB > m.scoreA THEN m.playerBId
  ELSE NoPlayer

StrictLoser(m) ==
  IF m.scoreA > m.scoreB THEN m.playerBId
  ELSE IF m.scoreB > m.scoreA THEN m.playerAId
  ELSE NoPlayer

HasStage(ms, stage) == \E i \in DOMAIN ms : ms[i].stage = stage

\* C1: the match list never holds more than one 'final', more than one
\* 'third_place' or more than two 'semi' matches, whatever sequence of
\* setKnockoutPlayerCount, startKnockoutStage, setMatchScore and
\* advanceToFinalStage calls produced it.
C1_SubStageCreatedOnce ==
  /\ Len(OfStage(matches, "final")) <= 1
  /\ Len(OfStage(matches, "third_place")) <= 1
  /\ Len(OfStage(matches, "semi")) <= 2

\* C2: for a count of at least 3, a setMatchScore call that completes the
\* play-in matches while neither a semifinal nor a final exists appends, in the
\* same call, a match of the following sub-stage (a further play-in match, the
\* semifinals, or the final for count 3); a call that completes the two
\* semifinals while no final exists appends the final and the third-place match.
C2_ScoreCreatesNextSubStage ==
  [][\A i \in DOMAIN matches, sc \in ScorePairs :
       (/\ knockoutPlayerCount >= 3
        /\ knockoutSeeds # NoSeeds
        /\ matches[i].stage \in {"play_in", "semi"}
        /\ Len(matches') >= Len(matches)
        /\ state' = setMatchScore(state, matches[i].id, sc[1], sc[2]))
       => LET kept == SubSeq(matches', 1, Len(matches))
              added == SubSeq(matches', Len(matches) + 1, Len(matches'))
          IN /\ (/\ matches[i].stage = "play_in"
                 /\ AllScored(OfStage(kept, "play_in"))
                 /\ ~HasStage(matches, "semi")
                 /\ ~HasStage(matches, "final"))
                => \/ HasStage(added, "play_in")
                   \/ HasStage(added, "semi")
                   \/ HasStage(added, "final")
             /\ (/\ matches[i].stage = "semi"
                 /\ AllScored(OfStage(kept, "semi"))
                 /\ ~HasStage(matches, "final"))
                => /\ HasStage(added, "final")
                   /\ HasStage(added, "third_place")]_vars

\* C3: once the knockout has started, a second advanceToFinalStage call made
\* right after a first one changes nothing: it returns the state the first
\* call produced.
C3_AdvanceTwiceSameState ==
  knockoutSeeds # NoSeeds
    => advanceToFinalStage(advanceToFinalStage(state)) = advanceToFinalStage(state)

\* A state advanceToFinalStage produced: with count 6 only that call creates
\* the semifinals.
C3_Witness ==
  /\ knockoutPlayerCount = 6
  /\ Len(OfStage(matches, "semi")) = 2
  /\ ~HasStage(matches, "final")
  /\ advanceToFinalStage(state) = state

\* C4: with count 5 and seeds [S0..S4], scoring the single play-in match
\* S3 vs S4 leaves exactly that match and two pending semifinals, S0 vs the
\* play-in winner and S1 vs S2; advanceToFinalStage then changes nothing.
C4_FiveSeedsPlayInThenSemis ==
  [][\A sc \in ScorePairs :
       (/\ knockoutPlayerCount = 5
        /\ knockoutSeeds # NoSeeds
        /\ Len(matches) = 1
        /\ IsPending(matches[1], "play_in", knockoutSeeds[4], knockoutSeeds[5])
        /\ sc[1] # sc[2]
        /\ state' = setMatchScore(state, matches[1].id, sc[1], sc[2]))
       => /\ Len(matches') = 3
          /\ matches'[1] = [matches[1] EXCEPT !.scoreA = sc[1], !.scoreB = sc[2],
                                              !.status = "played"]
          /\ IsPending(matches'[2], "semi", knockoutSeeds[1],
                       IF sc[1] > sc[2] THEN knockoutSeeds[4] ELSE knockoutSeeds[5])
          /\ IsPending(matches'[3], "semi", knockoutSeeds[2], knockoutSeeds[3])
          /\ advanceToFinalStage(state') = state']_vars

C4_Witness ==
  /\ knockoutPlayerCount = 5
  /\ Len(matches) = 3
  /\ matches[1].stage = "play_in" /\ Decisive(matches[1])
  /\ IsPending(matches[2], "semi", knockoutSeeds[1], StrictWinner(matches[1]))
  /\ IsPending(matches[3], "semi", knockoutSeeds[2], knockoutSeeds[3])

C6_PlayInEndsInSemis ==
  LET k == knockoutPlayerCount
      playIns == OfStage(matches, "play_in")
      scored == SelectSeq(playIns, HasScores)
      semis == OfStage(matches, "semi")
      losers == {StrictLoser(scored[i]) : i \in DOMAIN scored}
      survivors == {knockoutSeeds[j] : j \in 4..k} \ losers
  IN (/\ k >= 7
      /\ knockoutSeeds # NoSeeds
      /\ Len(scored) >= k - 4
      /\ \A i \in DOMAIN scored : Decisive(scored[i])
      /\ advanceToFinalStage(state) = state)
     => /\ AllScored(playIns)
        /\ Cardinality(survivors) = 1
        /\ Len(semis) = 2
        /\ \E w \in survivors :
             /\ semis[1].playerAId = knockoutSeeds[1] /\ semis[1].playerBId = w
        /\ semis[2].playerAId = knockoutSeeds[2]
        /\ semis[2].playerBId = knockoutSeeds[3]

\* C7: when a setMatchScore call on a semifinal leaves both semifinals with a
\* decisive score while no final exists, it appends exactly one final between
\* the two semifinal winners and exactly one third-place match between the two
\* losers, both pending; advanceToFinalStage applied to the same scored match
\* list appends the same two matches.
C7_SemisFeedFinalAndThird ==
  [][\A i \in DOMAIN matches, sc \in ScorePairs :
       (/\ matches[i].stage = "semi"
        /\ knockoutSeeds # NoSeeds
        /\ Len(OfStage(matches, "semi")) = 2
        /\ ~HasStage(matches, "final")
        /\ Len(matches') >= Len(matches)
        /\ state' = setMatchScore(state, matches[i].id, sc[1], sc[2])
        /\ \A j \in 1..2 : Decisive(OfStage(SubSeq(matches', 1, Len(matches)), "semi")[j]))
       => LET kept == SubSeq(matches', 1, Len(matches))
              semis == OfStage(kept, "semi")
              finals == OfStage(matches', "final")
              thirds == OfStage(matches', "third_place")
          IN /\ Len(matches') = Len(matches) + 2
             /\ Len(finals) = 1
             /\ IsPending(finals[1], "final", StrictWinner(semis[1]), StrictWinner(semis[2]))
             /\ Len(thirds) = 1
             /\ IsPending(thirds[1], "third_place", StrictLoser(semis[1]), StrictLoser(semis[2]))
             /\ advanceToFinalStage([state EXCEPT !.matches = kept]).matches = matches']_vars

C7_Witness ==
  LET semis == OfStage(matches, "semi")
      finals == OfStage(matches, "final")
      thirds == OfStage(matches, "third_place")
  IN /\ Len(semis) = 2 /\ Decisive(semis[1]) /\ Decisive(semis[2])
     /\ Len(finals) = 1 /\ Len(thirds) = 1
     /\ IsPending(finals[1], "final", StrictWinner(semis[1]), StrictWinner(semis[2]))
     /\ IsPending(thirds[1], "third_place", StrictLoser(semis[1]), StrictLoser(semis[2]))

C10_SeedsSetOnce ==
  [][knockoutSeeds # NoSeeds => knockoutSeeds' = knockoutSeeds]_vars

\* C11: in every state the context's operations can produce, if a match with a
\* knockout stage (play_in, semi, final, third_place) exists then knockoutSeeds
\* is set and has exactly knockoutPlayerCount entries.
C11_KnockoutMatchesHaveSeeds ==
  (\E i \in DOMAIN matches : matches[i].stage # NoStage)
    => /\ knockoutSeeds # NoSeeds
       /\ Len(knockoutSeeds) = knockoutPlayerCount

\* Vocabulary of the seeding claims: the group standings startKnockoutStage
\* reads, and the ids of its rows from..to (1-based).
GroupStandings == computeStandings(players, SelectSeq(matches, LAMBDA m : m.stage = NoStage))

RowIds(from, to) == [i \in 1..(to - from + 1) |-> GroupStandings[from + i - 1].playerId]

SamePlayers(s, t) ==
  /\ Len(s) = Len(t)
  /\ \A p \in Range(s) \cup Range(t) :
       Cardinality({i \in DOMAIN s : s[i] = p}) = Cardinality({i \in DOMAIN t : t[i] = p})

\* Every state startKnockoutStage can return from the current state with seeds set.
StartOutcomes ==
  {n \in {startKnockoutStage(state, js, coin) :
            js \in ShuffleDraws(ShuffleSize(knockoutPlayerCount)),
            coin \in (IF knockoutPlayerCount = 3 THEN BOOLEAN ELSE {FALSE})} :
     n.knockoutSeeds # NoSeeds /\ n # state}

\* C12 as stated: for every count k >= 4 and every outcome of the shuffle,
\* startKnockoutStage puts the entrants of standings rows 1, 2, 3 at seed
\* positions 0, 1, 2 in that order, and positions 3..k-1 hold the entrants of
\* rows 4..k in some order.
C12_TopThreeSafeFromFour ==
  knockoutPlayerCount >= 4
    => \A n \in StartOutcomes :
         /\ SliceTo(n.knockoutSeeds, 3) = RowIds(1, 3)
         /\ SamePlayers(SliceFrom(n.knockoutSeeds, 3), RowIds(4, knockoutPlayerCount))

\* C12 amended: the same for every count k >= 5; for k = 4 all four seed
\* positions are shuffled.
C12_TopThreeSafeFromFive ==
  knockoutPlayerCount >= 5
    => \A n \in StartOutcomes :
         /\ SliceTo(n.knockoutSeeds, 3) = RowIds(1, 3)
         /\ SamePlayers(SliceFrom(n.knockoutSeeds, 3), RowIds(4, knockoutPlayerCount))

\* A knockout stage of 6 started after the sample scores: the standings differ
\* from the entry order and the bottom three seeds are not in rank order.
C12_Witness ==
  /\ knockoutPlayerCount = 6
  /\ knockoutSeeds # NoSeeds
  /\ RowIds(1, 3) # SliceTo(players, 3)
  /\ SliceTo(knockoutSeeds, 3) = RowIds(1, 3)
  /\ SliceFrom(knockoutSeeds, 3) # RowIds(4, 6)
  /\ Len(OfStage(matches, "play_in")) = 1

\* C13: for every count k and every outcome of the shuffle, a successful
\* startKnockoutStage leaves in knockoutSeeds each entrant of the first k rows
\* of the group standings exactly once and nobody else; for k = 3 the first
\* seed is the entrant of the first row.
C13_SeedsAreTopRows ==
  \A n \in StartOutcomes :
    /\ SamePlayers(n.knockoutSeeds, RowIds(1, knockoutPlayerCount))
    /\ Cardinality(Range(n.knockoutSeeds)) = knockoutPlayerCount
    /\ knockoutPlayerCount = 3 => n.knockoutSeeds[1] = GroupStandings[1].playerId

\* A knockout stage of 3 started after the sample scores with the second and
\* third rows exchanged by the coin.
C13_Witness ==
  /\ knockoutPlayerCount = 3
  /\ knockoutSeeds # NoSeeds
  /\ Len(players) > 3
  /\ RowIds(1, 3) # SliceTo(players, 3)
  /\ knockoutSeeds = <<RowIds(1, 3)[1], RowIds(1, 3)[3], RowIds(1, 3)[2]>>
  /\ Len(OfStage(matches, "play_in")) = 1

\* C14: while a group-stage match or a golden-goal match has no score,
\* startKnockoutStage returns the state unchanged (no seeds set, no knockout
\* match created), whatever the shuffle would draw.
C14_NoStartBeforeGroupComplete ==
  (\E i \in DOMAIN matches : matches[i].stage = NoStage /\ ~HasScores(matches[i]))
    => \A js \in ShuffleDraws(ShuffleSize(knockoutPlayerCount)), coin \in BOOLEAN :
         startKnockoutStage(state, js, coin) = state

\* Vocabulary of the elimination claims.
RoundMatches(ms, r) ==
  SelectSeq(ms, LAMBDA m : m.roundIndex = r /\ m.stage = NoStage /\ ~m.isGoldenGoal)

RoundComplete(ms, r) == AllScored(RoundMatches(ms, r))

IsRoundRobin(m) == m.stage = NoStage /\ ~m.isGoldenGoal /\ m.roundIndex >= 0

\* The entrants the log names for rounds before r
EliminatedBefore(log, r) ==
  {log[j].eliminatedPlayerId : j \in {j \in DOMAIN log : log[j].roundIndex < r}}

HasEntryFor(log, r) == \E j \in DOMAIN log : log[j].roundIndex = r

\* log' is log with exactly one entry for round r appended
OneAppended(log, logAfter, r) ==
  /\ Len(logAfter) = Len(log) + 1
  /\ SubSeq(logAfter, 1, Len(log)) = log
  /\ logAfter[Len(logAfter)].roundIndex = r

\* C15 as stated: with an odd number of entrants, every setMatchScore call that
\* completes a round (its last unscored match gets a score) appends exactly one
\* entry for that round to roundEliminations.
C15_OneEliminationPerRound ==
  [][\A i \in DOMAIN matches : \A sc \in ScorePairs :
       (/\ Len(players) % 2 = 1
        /\ IsRoundRobin(matches[i])
        /\ ~RoundComplete(matches, matches[i].roundIndex)
        /\ state' = setMatchScore(state, matches[i].id, sc[1], sc[2])
        /\ RoundComplete(matches', matches[i].roundIndex))
       => OneAppended(roundEliminations, roundEliminations', matches[i].roundIndex)]_vars

\* C15 amended: such a call appends exactly one entry for the round, naming an
\* entrant not eliminated in an earlier round, when more than one entrant is
\* left after the eliminations of the earlier rounds; otherwise it leaves the
\* log unchanged.
C15_OneEliminationWhileTwoRemain ==
  [][\A i \in DOMAIN matches : \A sc \in ScorePairs :
       LET r == matches[i].roundIndex
           before == EliminatedBefore(roundEliminations, r)
       IN (/\ Len(players) % 2 = 1
           /\ IsRoundRobin(matches[i])
           /\ ~RoundComplete(matches, r)
           /\ state' = setMatchScore(state, matches[i].id, sc[1], sc[2])
           /\ RoundComplete(matches', r))
          => IF Len(players) - Cardinality(before) > 1
             THEN /\ OneAppended(roundEliminations, roundEliminations', r)
                  /\ roundEliminations'[Len(roundEliminations')].eliminatedPlayerId
                       \in Range(players) \ before
             ELSE roundEliminations' = roundEliminations]_vars

\* Three entrants, all three rounds played in order: the bye of round 0 and the
\* worst performer of round 1 are logged, round 2 added nothing.
C15_Witness ==
  /\ Len(players) = 3
  /\ Len(matches) = 3
  /\ AllScored(matches)
  /\ Len(roundEliminations) = 2
  /\ roundEliminations[1].roundIndex = 0 /\ roundEliminations[1].reason = "bye"
  /\ roundEliminations[2].roundIndex = 1
  /\ roundEliminations[2].reason = "worst_performance"

\* C16: with an odd number of entrants, whatever the order in which the rounds
\* are completed, at least one entrant is not named in roundEliminations.
C16_OneEntrantSurvives ==
  (Len(players) % 2 = 1 /\ matches # <<>>)
    => \E p \in Range(players) :
         \A j \in DOMAIN roundEliminations : roundEliminations[j].eliminatedPlayerId # p

\* C17: a setMatchScore call never modifies or removes an entry of
\* roundEliminations (the log before the call is a prefix of the log after it),
\* and the log never holds two entries for the same round index.
C17_EliminationLogAppendOnly ==
  [][/\ \A i \in DOMAIN matches : \A sc \in ScoresFor(matches[i]) :
          state' = setMatchScore(state, matches[i].id, sc[1], sc[2])
            => /\ Len(roundEliminations') >= Len(roundEliminations)
               /\ SubSeq(roundEliminations', 1, Len(roundEliminations)) = roundEliminations
     /\ \A j, k \in DOMAIN roundEliminations' :
          roundEliminations'[j].roundIndex = roundEliminations'[k].roundIndex => j = k]_vars

\* Three entrants: round 1 logged entrant 3 as its worst performer, and the
\* round-1 match has since been corrected to a score entrant 3 does not lose.
C17_Witness ==
  /\ Len(players) = 3
  /\ \E j \in DOMAIN roundEliminations :
       /\ roundEliminations[j].roundIndex = 1
       /\ roundEliminations[j].eliminatedPlayerId = 3
       /\ roundEliminations[j].reason = "worst_performance"
  /\ Len(RoundMatches(matches, 1)) = 1
  /\ RoundMatches(matches, 1)[1].playerBId = 3
  /\ HasScores(RoundMatches(matches, 1)[1])
  /\ RoundMatches(matches, 1)[1].scoreB >= RoundMatches(matches, 1)[1].scoreA

\* Vocabulary of the golden-goal claims.
GoldenIndexes(ms) == {i \in DOMAIN ms : ms[i].isGoldenGoal}

UnorderedPair(m) == {m.playerAId, m.playerBId}

\* The unordered pairs of entrants the standings flag as tied with each other:
\* equal points, goal difference and goals for.
TiedPairsNow ==
  LET rows == computeStandings(players, matches)
      Level(i, j) == /\ rows[i].points = rows[j].points
                     /\ rows[i].goalDifference = rows[j].goalDifference
                     /\ rows[i].goalsFor = rows[j].goalsFor
  IN {{rows[ij[1]].playerId, rows[ij[2]].playerId} : ij \in
        {xy \in (DOMAIN rows) \X (DOMAIN rows) :
           /\ xy[1] < xy[2]
           /\ rows[xy[1]].isTied
           /\ rows[xy[2]].isTied
           /\ Level(xy[1], xy[2])}}

\* C18: every golden-goal match that has scores has scoreA and scoreB in {0, 1}
\* with scoreA + scoreB = 1.
C18_GoldenScoresSumToOne ==
  \A i \in GoldenIndexes(matches) :
    HasScores(matches[i])
      => /\ matches[i].scoreA \in {0, 1}
         /\ matches[i].scoreB \in {0, 1}
         /\ matches[i].scoreA + matches[i].scoreB = 1

\* Two golden-goal matches, one decided 1-0 and one decided 0-1.
C18_Witness ==
  /\ \E i \in GoldenIndexes(matches) : matches[i].scoreA = 1 /\ matches[i].scoreB = 0
  /\ \E i \in GoldenIndexes(matches) : matches[i].scoreA = 0 /\ matches[i].scoreB = 1

\* C19: setMatchScore on a golden-goal match with (1,0) or (0,1) stores those
\* scores with status 'golden_goal' and changes nothing else; with (1,1), (0,0)
\* or (2,-1) it returns the state unchanged, and a golden-goal match that has
\* no scores has the status 'pending' it was created with.
C19_GoldenGoalAcceptReject ==
  \A i \in GoldenIndexes(matches) :
    /\ \A sc \in {<<1, 0>>, <<0, 1>>} :
         setMatchScore(state, matches[i].id, sc[1], sc[2]) =
           [state EXCEPT !.matches =
              [matches EXCEPT ![i] = [@ EXCEPT !.scoreA = sc[1], !.scoreB = sc[2],
                                               !.status = "golden_goal"]]]
    /\ \A sc \in {<<1, 1>>, <<0, 0>>, <<2, -1>>} :
         setMatchScore(state, matches[i].id, sc[1], sc[2]) = state
    /\ ~HasScores(matches[i]) => matches[i].status = "pending"

\* C20: the match list never holds two golden-goal matches for the same
\* unordered pair, and a run of addGoldenGoalMatchesForTies appends exactly one
\* unscored golden-goal match (stage unset, isGoldenGoal true, roundIndex -1)
\* for each currently tied pair that has none, and nothing else.
C20_OneGoldenMatchPerTiedPair ==
  LET n == addGoldenGoalMatchesForTies(state)
      added == SubSeq(n.matches, Len(matches) + 1, Len(n.matches))
      have == {UnorderedPair(matches[i]) : i \in GoldenIndexes(matches)}
      lacking == TiedPairsNow \ have
  IN /\ \A i, j \in GoldenIndexes(matches) :
          UnorderedPair(matches[i]) = UnorderedPair(matches[j]) => i = j
     /\ Len(n.matches) >= Len(matches)
     /\ SubSeq(n.matches, 1, Len(matches)) = matches
     /\ [n EXCEPT !.matches = matches] = state
     /\ Len(added) = Cardinality(lacking)
     /\ {UnorderedPair(added[i]) : i \in DOMAIN added} = lacking
     /\ \A i \in DOMAIN added :
          /\ added[i].isGoldenGoal
          /\ added[i].stage = NoStage
          /\ added[i].roundIndex = -1
          /\ ~HasScores(added[i])

\* Three entrants, two golden-goal matches created by two runs: the first is
\* decided, its pair is tied again, and the second is still open.
C20_Witness ==
  /\ Len(players) = 3
  /\ Cardinality(GoldenIndexes(matches)) = 2
  /\ \E i, j \in GoldenIndexes(matches) :
       /\ i < j
       /\ HasScores(matches[i])
       /\ ~HasScores(matches[j])
       /\ UnorderedPair(matches[i]) \in TiedPairsNow

\* C21: score submissions are applied in submission order: whenever the update
\* of a call is applied, no call submitted before it is still waiting for its
\* lookup, so a match ends with the later-submitted score.
C21_AppliedInSubmissionOrder ==
  [][\A c \in inFlight \ inFlight' : \A d \in inFlight' : d.seq > c.seq]_vars

\* Vocabulary of the standings claims: the position of every entrant's row in
\* the rows computeStandings returns, and the points of that row.
RowIndexOf(ps, ms) ==
  LET rows == computeStandings(ps, ms)
  IN [p \in Range(ps) |-> (CHOOSE i \in DOMAIN rows : rows[i].playerId = p)]

PointsTable(ps, ms) ==
  LET rows == computeStandings(ps, ms)
  IN [p \in Range(ps) |-> rows[RowIndexOf(ps, ms)[p]].points]

\* C22: recording or correcting the score of a knockout match or of a
\* golden-goal match never changes any entrant's points in the standings.
C22_KnockoutAndGoldenKeepPoints ==
  \A i \in DOMAIN matches :
    (matches[i].stage # NoStage \/ matches[i].isGoldenGoal)
      => \A sc \in GoldenScorePairs :
           LET n == setMatchScore(state, matches[i].id, sc[1], sc[2])
           IN PointsTable(n.players, n.matches) = PointsTable(players, matches)

Triple(r) == <<r.points, r.goalDifference, r.goalsFor>>

\* Lexicographic order of (points, goalDifference, goalsFor) triples.
TripleGeq(s, t) ==
  \/ s[1] > t[1]
  \/ s[1] = t[1] /\ s[2] > t[2]
  \/ s[1] = t[1] /\ s[2] = t[2] /\ s[3] >= t[3]

\* C23: a row of computeStandings has isTied set exactly when another row has
\* the same (points, goalDifference, goalsFor) triple; two rows have the same
\* rank exactly when their triples are equal; and the rank of a row is 1 plus
\* the number of rows sorted before its group of equal rows.
C23_TieFlagAndRank ==
  LET rows == computeStandings(players, matches)
  IN \A i \in DOMAIN rows :
       /\ rows[i].isTied <=> \E j \in DOMAIN rows : j # i /\ Triple(rows[j]) = Triple(rows[i])
       /\ \A j \in DOMAIN rows :
            rows[i].rank = rows[j].rank <=> Triple(rows[i]) = Triple(rows[j])
       /\ rows[i].rank =
            1 + Cardinality({j \in DOMAIN rows : j < i /\ Triple(rows[j]) # Triple(rows[i])})

\* Three rows where the first two are equal and share rank 1, which leaves
\* rank 3 to the third.
C23_Witness ==
  LET rows == computeStandings(players, matches)
  IN /\ Len(rows) = 3
     /\ rows[1].isTied /\ rows[2].isTied /\ ~rows[3].isTied
     /\ rows[1].rank = 1 /\ rows[2].rank = 1 /\ rows[3].rank = 3

\* C24: the rows of computeStandings are in non-increasing lexicographic order
\* of (points, goalDifference, goalsFor), and ranks never decrease down the list.
C24_RowsSortedDescending ==
  LET rows == computeStandings(players, matches)
  IN \A i \in DOMAIN rows :
       i + 1 \in DOMAIN rows
         => /\ TripleGeq(Triple(rows[i]), Triple(rows[i + 1]))
            /\ rows[i].rank <= rows[i + 1].rank

\* Two adjacent rows with equal points and equal goal difference that the
\* goals scored put in the opposite order of the players.
C24_Witness ==
  LET rows == computeStandings(players, matches)
  IN \E i \in DOMAIN rows :
       /\ i + 1 \in DOMAIN rows
       /\ rows[i].points = rows[i + 1].points
       /\ rows[i].goalDifference = rows[i + 1].goalDifference
       /\ rows[i].goalsFor > rows[i + 1].goalsFor
       /\ rows[i].playerId > rows[i + 1].playerId

\* C25: setMatchScore on a match that is not a golden-goal match with a
\* negative scoreA or scoreB returns the state unchanged.
C25_NegativeScoreRejected ==
  \A i \in DOMAIN matches :
    ~matches[i].isGoldenGoal
      => \A sc \in {<<-1, 0>>, <<0, -1>>, <<-1, -1>>, <<-2, 1>>} :
           setMatchScore(state, matches[i].id, sc[1], sc[2]) = state

\* Ids that can name no match of the state: the id of each match as a
\* golden-goal id, a group id past the schedule, and knockout ids.
ProbeIds ==
  {[matches[i].id EXCEPT !.kind = "golden-"] : i \in DOMAIN matches}
    \cup {GroupId(Len(matches), 1, 2), KoId("ko-third"), KoId("ko-final"), PlayInId(9)}

UnknownIds == {id \in ProbeIds : \A i \in DOMAIN matches : matches[i].id # id}

\* C26: setMatchScore with a match id that names no match of the current state
\* returns the state unchanged.
C26_UnknownMatchIdIsNoOp ==
  \A id \in UnknownIds : \A sc \in GoldenScorePairs :
    setMatchScore(state, id, sc[1], sc[2]) = state

\* A group stage in progress, one match scored and one still open, where the
\* golden-goal ids and the knockout ids name no match.
C26_Witness ==
  /\ \E i \in DOMAIN matches : matches[i].id.kind = "m-" /\ ~HasScores(matches[i])
  /\ \E i \in DOMAIN matches : matches[i].id.kind = "m-" /\ HasScores(matches[i])
  /\ KoId("ko-final") \in UnknownIds
  /\ \E id \in UnknownIds : id.kind = "golden-"

\* C27: setKnockoutPlayerCount(count) with count < 2 or count greater than the
\* number of entrants returns the state unchanged, and startKnockoutStage with
\* no count set, a count below 2, or fewer standings rows than the count
\* returns the state unchanged.
C27_OutOfRangeCountIsNoOp ==
  LET tooFew == {-1, 0, 1}
      tooMany == {Len(players) + 1, Len(players) + 2}
  IN /\ \A count \in tooFew \cup tooMany : setKnockoutPlayerCount(state, count) = state
     /\ \A c \in {NoCount, 1, Len(players) + 1} :
          LET s == [state EXCEPT !.knockoutPlayerCount = c]
          IN \A js \in ShuffleDraws(ShuffleSize(c)), coin \in BOOLEAN :
               startKnockoutStage(s, js, coin) = s

\* A started knockout stage, where a count in range would clear the seeds
\* and a start would add matches.
C27_Witness ==
  /\ knockoutPlayerCount # NoCount
  /\ knockoutSeeds # NoSeeds
  /\ \E i \in DOMAIN matches : matches[i].stage # NoStage

\* C28: for N >= 2 entrants the group-stage matches startTournament creates
\* number N(N-1)/2, every unordered pair of entrants is connected by exactly one
\* of them, and no entrant appears in two matches with the same roundIndex.
C28_RoundRobinComplete ==
  LET ms == startTournament(state).matches
      N == Len(players)
      Of(i) == {ms[i].playerAId, ms[i].playerBId}
  IN /\ Len(ms) = (N * (N - 1)) \div 2
     /\ \A a, b \in Range(players) :
          a < b => Cardinality({i \in DOMAIN ms : Of(i) = {a, b}}) = 1
     /\ \A i, j \in DOMAIN ms :
          (i # j /\ ms[i].roundIndex = ms[j].roundIndex) => Of(i) \cap Of(j) = {}

\* A started tournament of five entrants (a bye in every round), and one of
\* six.
C28_Witness ==
  /\ Len(players) \in {5, 6}
  /\ matches # <<>>
  /\ matches = startTournament(state).matches

\* C29: every entrant the elimination log records with reason 'bye' for round
\* r is the entrant left unpaired in round r of the schedule: it has no
\* group-stage match with roundIndex r.
C29_ByeEliminatesTheUnpaired ==
  \A j \in DOMAIN roundEliminations :
    roundEliminations[j].reason = "bye"
      => \A i \in DOMAIN matches :
           (IsRoundRobin(matches[i]) /\ matches[i].roundIndex = roundEliminations[j].roundIndex)
             => roundEliminations[j].eliminatedPlayerId
                  \notin {matches[i].playerAId, matches[i].playerBId}

\* The (points, goalDifference, goalsFor) triple of entrant p from the scored
\* group-stage matches of round r only; (0, 0, 0) without such a match.
RECURSIVE SumOver(_, _)
SumOver(f, S) ==
  IF S = {} THEN 0
  ELSE LET x == CHOOSE y \in S : TRUE IN f[x] + SumOver(f, S \ {x})

RoundTriple(p, ms, r) ==
  LET mine == {i \in DOMAIN ms :
                 /\ IsRoundRobin(ms[i]) /\ ms[i].roundIndex = r /\ HasScores(ms[i])
                 /\ p \in {ms[i].playerAId, ms[i].playerBId}}
      for == [i \in mine |-> IF ms[i].playerAId = p THEN ms[i].scoreA ELSE ms[i].scoreB]
      against == [i \in mine |-> IF ms[i].playerAId = p THEN ms[i].scoreB ELSE ms[i].scoreA]
      pts == [i \in mine |-> IF for[i] > against[i] THEN 3
                             ELSE IF for[i] = against[i] THEN 1 ELSE 0]
  IN <<SumOver(pts, mine), SumOver(for, mine) - SumOver(against, mine), SumOver(for, mine)>>

\* C30: whenever an elimination with reason 'worst_performance' is recorded for
\* round r, the eliminated entrant has not been eliminated before, and no other
\* entrant that has not been eliminated before has a strictly smaller
\* (points, goalDifference, goalsFor) triple from the scored group matches of
\* round r.
C30_WorstPerformerEliminated ==
  [][(/\ Len(roundEliminations') = Len(roundEliminations) + 1
      /\ roundEliminations'[Len(roundEliminations')].reason = "worst_performance")
       => LET e == roundEliminations'[Len(roundEliminations')]
              gone == {roundEliminations[j].eliminatedPlayerId : j \in DOMAIN roundEliminations}
              worst == RoundTriple(e.eliminatedPlayerId, matches', e.roundIndex)
          IN /\ e.eliminatedPlayerId \notin gone
             /\ \A p \in Range(players) \ gone :
                  TripleGeq(RoundTriple(p, matches', e.roundIndex), worst)]_vars

\* C31: no entrant id appears in more than one entry of the elimination log.
C31_EliminatedAtMostOnce ==
  \A i, j \in DOMAIN roundEliminations :
    roundEliminations[i].eliminatedPlayerId = roundEliminations[j].eliminatedPlayerId
      => i = j

\* C32: also when invocations of addGoldenGoalMatchesForTies overlap, the match
\* list holds at most one golden-goal match per unordered pair of entrants.
C32_OverlappingRunsAddNoDuplicate ==
  \A i, j \in DOMAIN matches :
    (/\ matches[i].isGoldenGoal
     /\ matches[j].isGoldenGoal
     /\ {matches[i].playerAId, matches[i].playerBId} = {matches[j].playerAId, matches[j].playerBId})
      => i = j

\* The matches computeStandings counts for the entrants ps: both scores set,
\* no knockout stage, both participants among ps.
Counted(ps, ms) ==
  {i \in DOMAIN ms :
     /\ HasScores(ms[i])
     /\ ms[i].stage = NoStage
     /\ ms[i].playerAId \in Range(ps)
     /\ ms[i].playerBId \in Range(ps)}

Reverse(ms) == [i \in DOMAIN ms |-> ms[Len(ms) + 1 - i]]

\* The rows of computeStandings(ps, ms) are the tallies of the counted matches.
RowsAreTallies(ps, ms) ==
  LET rows == computeStandings(ps, ms)
  IN /\ Len(rows) = Len(ps)
     /\ \A k \in DOMAIN rows :
          LET p == rows[k].playerId
              mine == {i \in Counted(ps, ms) : p \in {ms[i].playerAId, ms[i].playerBId}}
              for == [i \in mine |-> IF ms[i].playerAId = p THEN ms[i].scoreA ELSE ms[i].scoreB]
              against == [i \in mine |-> IF ms[i].playerAId = p THEN ms[i].scoreB ELSE ms[i].scoreA]
          IN /\ p \in Range(ps)
             /\ rows[k].wins = Cardinality({i \in mine : for[i] > against[i]})
             /\ rows[k].draws = Cardinality({i \in mine : for[i] = against[i]})
             /\ rows[k].losses = Cardinality({i \in mine : for[i] < against[i]})
             /\ rows[k].goalsFor = SumOver(for, mine)
             /\ rows[k].goalsAgainst = SumOver(against, mine)
             /\ rows[k].points = 3 * rows[k].wins + rows[k].draws
             /\ rows[k].played = rows[k].wins + rows[k].draws + rows[k].losses
             /\ rows[k].goalDifference = rows[k].goalsFor - rows[k].goalsAgainst

\* C33: every row of computeStandings has wins, draws and losses counted only
\* from matches with both scores set, no knockout stage and both participants
\* registered, with points = 3 * wins + draws, played = wins + draws + losses
\* and goalDifference = goalsFor - goalsAgainst, and the rows do not depend on
\* the order of the match list. Checked for the entrants and matches of the
\* state, for the entrants without the last one, and with each match in turn
\* marked as a knockout match.
C33_RowsTallyCountedMatches ==
  LET fewer == SubSeq(players, 1, Len(players) - 1)
      staged(i) == [matches EXCEPT ![i].stage = "final"]
  IN /\ RowsAreTallies(players, matches)
     /\ RowsAreTallies(fewer, matches)
     /\ \A i \in DOMAIN matches : RowsAreTallies(players, staged(i))
     /\ computeStandings(players, Reverse(matches)) = computeStandings(players, matches)

\* A win and a draw are counted while another match is still open.
C33_Witness ==
  /\ \E i \in DOMAIN matches :
       ~matches[i].isGoldenGoal /\ HasScores(matches[i]) /\ matches[i].scoreA # matches[i].scoreB
  /\ \E i \in DOMAIN matches :
       ~matches[i].isGoldenGoal /\ HasScores(matches[i]) /\ matches[i].scoreA = matches[i].scoreB
  /\ \E i \in DOMAIN matches : ~HasScores(matches[i])


\* The matches of before are all in after, at their positions, with the same
\* id, participants, roundIndex, stage and isGoldenGoal.
MatchesKept(before, after) ==
  /\ Len(after) >= Len(before)
  /\ \A i \in DOMAIN before :
       /\ after[i].id = before[i].id
       /\ after[i].playerAId = before[i].playerAId
       /\ after[i].playerBId = before[i].playerBId
       /\ after[i].roundIndex = before[i].roundIndex
       /\ after[i].stage = before[i].stage
       /\ after[i].isGoldenGoal = before[i].isGoldenGoal

\* Of the matches of before, only the one at position i may differ in after,
\* and only in its scores and status.
OnlyScoreOf(i, before, after) ==
  /\ \A j \in DOMAIN before : j # i => after[j] = before[j]
  /\ after[i] = [before[i] EXCEPT !.scoreA = after[i].scoreA,
                                  !.scoreB = after[i].scoreB,
                                  !.status = after[i].status]

C35_TwoDifferentParticipants ==
  \A i \in DOMAIN matches : matches[i].playerAId # matches[i].playerBId

\* C36: a participant of a later knockout match that was filled from an
\* earlier one is the winner, respectively loser, of the feeding match under
\* its current scores: the final of a count of 3 has the play-in winner, the
\* first semifinal of a count of 5 has the play-in winner, and the final and
\* the third-place match have the winners and the losers of the semifinals.
C36_FedSlotsFollowFeedingScores ==
  LET playIns == OfStage(matches, "play_in")
      semis == OfStage(matches, "semi")
      finals == OfStage(matches, "final")
      thirds == OfStage(matches, "third_place")
  IN /\ (knockoutPlayerCount = 3 /\ Len(playIns) = 1 /\ AllScored(playIns)) =>
          \A i \in DOMAIN finals : finals[i].playerBId = WinnerOf(playIns[1])
     /\ (knockoutPlayerCount = 5 /\ Len(playIns) = 1 /\ AllScored(playIns)) =>
          \A i \in DOMAIN semis :
            semis[i].id = KoId("ko-semi1") => semis[i].playerBId = WinnerOf(playIns[1])
     /\ (Len(semis) = 2 /\ AllScored(semis)) =>
          /\ \A i \in DOMAIN finals :
               /\ finals[i].playerAId = WinnerOf(semis[1])
               /\ finals[i].playerBId = WinnerOf(semis[2])
          /\ \A i \in DOMAIN thirds :
               /\ thirds[i].playerAId = LoserOf(semis[1])
               /\ thirds[i].playerBId = LoserOf(semis[2])

\* C37: an entrant advanced out of a knockout match scored strictly more than
\* its opponent in that match, and a knockout match with equal scores advances
\* nobody: the entrant that knockoutResults places first scored strictly more
\* in the final than the other finalist.
C37_AdvancedEntrantScoredMore ==
  LET finals == OfStage(matches, "final")
      results == knockoutResults(matches)
  IN results # NoResults =>
       IF results.firstId = finals[1].playerAId
       THEN finals[1].scoreA > finals[1].scoreB
       ELSE finals[1].scoreB > finals[1].scoreA

\* The knockout matches of the list.
KnockoutMatches == SelectSeq(matches, LAMBDA m : m.stage # NoStage)

\* k - 1 matches for a count of 2 or 3, k matches for a count of 4 to 6
MatchLimit(k) == IF k <= 3 THEN k - 1 ELSE k

\* C38: for a count of 2 to 6, once the knockout stage is started, with every
\* pending knockout match eventually scored decisively and advanceToFinalStage
\* invoked after each completed sub-stage, a final is eventually created and
\* scored and knockoutResults is no longer null, and the run never holds more
\* than k - 1 (k <= 3) or k (k >= 4) knockout matches.
C38_KnockoutRunEnds ==
  /\ (knockoutSeeds # NoSeeds) ~> (knockoutResults(matches) # NoResults)
  /\ [](knockoutSeeds # NoSeeds => Len(KnockoutMatches) <= MatchLimit(knockoutPlayerCount))

\* A run of 6 seeds is over: both play-in rounds, the semifinals and the final
\* are scored and the results are known.
C38_Witness ==
  /\ knockoutPlayerCount = 6
  /\ knockoutResults(matches) # NoResults
  /\ Len(OfStage(matches, "play_in")) = 2
  /\ Len(KnockoutMatches) = 6

\* C39: golden-goal resolution ends with no ties: once every round-robin
\* match and every golden-goal match has a score and a run of
\* addGoldenGoalMatchesForTies creates no new match, no row of computeStandings
\* is flagged isTied.
C39_ResolutionLeavesNoTie ==
  LET golden == SelectSeq(matches, LAMBDA m : m.isGoldenGoal)
      standings == computeStandings(players, matches)
  IN (/\ GroupComplete
      /\ golden # <<>>
      /\ AllScored(golden)
      /\ addGoldenGoalMatchesForTies(state) = state)
     => \A i \in DOMAIN standings : ~standings[i].isTied
====
